---------------------------- MODULE Spec2Model ----------------------------
(***************************************************************************)
(* Lettia_Automation: the reconciliation core.                             *)
(*                                                                         *)
(*   - ReservationMerger.merge          (services/reservation_merger.py)   *)
(*   - StateManager / InvoiceStateManager (services/state_manager.py)      *)
(*   - Orchestrator.sync_reservations_csv (core/orchestrator.py)           *)
(*   - GoogleSheetsService.upsert_reservation (services/google_sheets.py)  *)
(*   - InvoiceService.generate_all_invoices (services/invoice_service.py)  *)
(*                                                                         *)
(* Python values are records [t, v]: t is the Python type ("none", "str",  *)
(* "num"), v the payload.  A dict is a function whose DOMAIN is its key    *)
(* set.  A sorted list of unique ids (the ledger's JSON arrays) is a set.  *)
(***************************************************************************)
EXTENDS Integers, Sequences, FiniteSets, TLC

VARIABLES
    \* --- merge (SpecMerge) ---
    mKeys,        \* the keys the two records of this behaviour may carry
    mIncoming,    \* the record being imported
    mStored,      \* the stored record (existing, then every merge result)
    mPrev,        \* the stored record before the last merge
    mCount,       \* merges applied with the current incoming record
    mImports,     \* imports (incoming records) so far
    \* --- ledger objects (SpecLedger, SpecShared) ---
    lKind,        \* "reservations" (StateManager) or "invoices" (InvoiceStateManager)
    lFile,        \* the state JSON file on disk
    lMem,         \* per process: whether a manager object lives, and its self.state
    lAcked,       \* ids whose mark call returned normally, per id list
    lLast,        \* the last call: what it was and what it did
    \* --- sync_reservations_csv runs (Spec) ---
    sFile,        \* the reservation ledger's state file
    sState,       \* self.state of the run's StateManager
    sSheet,       \* the reservations sheet: rows in sheet order
    sExisting,    \* existing_reservations as loaded at the start of the run
    sPhase,       \* "off", "idle" (no run), "loop" (import loop), "backfill"
    sLen,         \* len(rows) of the run's CSV file
    sIdx,         \* the loop's position (1-based)
    sProcessed,   \* processed_count
    sErrors,      \* error_count
    sRuns,        \* runs started so far
    sPersisted,   \* ids the state file has held at some time
    sLast,        \* the last step of the run: what it was and what it did
    \* --- generate_all_invoices runs (Spec) ---
    iFile,        \* the invoice ledger's state file
    iState,       \* self.state of the run's InvoiceStateManager
    iInvoices,    \* the invoice sheet: number of lines per reservation id
    iCounts,      \* reservation_line_counts of the run
    iPhase,       \* "off", "idle" (no run), "loop"
    iIdx,         \* the loop's position (1-based)
    iGenerated,   \* generated_count
    iErrors,      \* error_count
    iRuns,        \* runs started so far
    iLast,        \* the last step of the run
    iDebug,       \* the debug argument of the run in progress
    \* --- re-processing of one reservation (SpecUpsert) ---
    uConfig,      \* the rate configuration of the runs
    uCsvRow,      \* the CSV row of the reservation in the current file
    uSheet,       \* the reservations sheet: the cells of each row
    uPrev,        \* the sheet after the previous upsert
    uCount,       \* runs that upserted the current CSV row
    uFiles,       \* CSV rows seen so far
    \* calculate_financials
    fRecord,      \* the booking record passed in
    fConfig,      \* the rate configuration passed in
    fTies,        \* the roundings that take a tie upwards
    fResult,      \* the dict returned
    fCount,       \* calls made
    \* calculate_tourist_tax
    tCheckIn,     \* the check_in argument
    tCheckOut,    \* the check_out argument
    tDob,         \* the dob argument
    tToday,       \* datetime.now().date()
    tResult,      \* what the last call ended with
    tPrev,        \* check_out and result of the call before it
    tCount,       \* calls made
    \* InvoiceService: primary guest and tourist tax of a reservation
    gReservation, \* the reservation
    gForms,       \* the SEF forms
    gTax,         \* what _calculate_tourist_tax ended with
    gMatch,        \* what _match_primary_guest returned
    \* InvoiceService: the invoice lines of a reservation
    nReservation, \* the reservation
    nForms,       \* the SEF forms
    nLines,       \* what generate_invoice_lines ended with
    nArgs,        \* the arguments of _build_tourist_tax_description
    nDescription,  \* what _build_tourist_tax_description ended with
    \* normalize_date and parse_sef_date
    dValue,       \* the value passed to normalize_date
    dResult,      \* what normalize_date(value) ended with
    dAgain,       \* what normalize_date of that result ended with
    pRaw,         \* the raw value passed to parse_sef_date
    pDate,         \* what parse_sef_date(raw) returned
    \* InvoiceService.write_invoice_lines_batch
    bRows,        \* len(rows) of the call
    bPc,          \* "idle", "loop" (in the while loop) or "returned"
    bRetry,       \* retry_count
    bAttempts,    \* the outcomes of the append requests of the call
    bResult,      \* what the call returned
    bCalls,       \* calls made so far
    bSheet        \* rows appended to the invoice sheet so far

mergeVars == <<mKeys, mIncoming, mStored, mPrev, mCount, mImports>>
ledgerVars == <<lKind, lFile, lMem, lAcked, lLast>>
syncVars ==
    <<sFile, sState, sSheet, sExisting, sPhase, sLen, sIdx, sProcessed,
      sErrors, sRuns, sPersisted, sLast>>
invoiceVars ==
    <<iFile, iState, iInvoices, iCounts, iPhase, iIdx, iGenerated, iErrors,
      iRuns, iLast, iDebug>>

upsertVars == <<uConfig, uCsvRow, uSheet, uPrev, uCount, uFiles>>
financeVars == <<fRecord, fConfig, fTies, fResult, fCount>>
taxVars == <<tCheckIn, tCheckOut, tDob, tToday, tResult, tPrev, tCount>>
guestsVars == <<gReservation, gForms, gTax, gMatch>>
linesVars == <<nReservation, nForms, nLines, nArgs, nDescription>>
datesVars == <<dValue, dResult, dAgain, pRaw, pDate>>
batchVars == <<bRows, bPc, bRetry, bAttempts, bResult, bCalls, bSheet>>

vars ==
    <<mergeVars, ledgerVars, syncVars, invoiceVars, upsertVars,
      financeVars, taxVars, guestsVars, linesVars, datesVars, batchVars>>

\* what the actions of one part leave alone
notMergeVars ==
    <<ledgerVars, syncVars, invoiceVars, upsertVars, financeVars, taxVars,
      guestsVars, linesVars, datesVars, batchVars>>
notLedgerVars ==
    <<mergeVars, syncVars, invoiceVars, upsertVars, financeVars, taxVars,
      guestsVars, linesVars, datesVars, batchVars>>
notSyncVars ==
    <<mergeVars, ledgerVars, invoiceVars, upsertVars, financeVars, taxVars,
      guestsVars, linesVars, datesVars, batchVars>>
notInvoiceVars ==
    <<mergeVars, ledgerVars, syncVars, upsertVars, financeVars, taxVars,
      guestsVars, linesVars, datesVars, batchVars>>
notUpsertVars ==
    <<mergeVars, ledgerVars, syncVars, invoiceVars, financeVars, taxVars,
      guestsVars, linesVars, datesVars, batchVars>>
notFinanceVars ==
    <<mergeVars, ledgerVars, syncVars, invoiceVars, upsertVars, taxVars,
      guestsVars, linesVars, datesVars, batchVars>>
notTaxVars ==
    <<mergeVars, ledgerVars, syncVars, invoiceVars, upsertVars,
      financeVars, guestsVars, linesVars, datesVars, batchVars>>
notGuestsVars ==
    <<mergeVars, ledgerVars, syncVars, invoiceVars, upsertVars,
      financeVars, taxVars, linesVars, datesVars, batchVars>>
notLinesVars ==
    <<mergeVars, ledgerVars, syncVars, invoiceVars, upsertVars,
      financeVars, taxVars, guestsVars, datesVars, batchVars>>
notDatesVars ==
    <<mergeVars, ledgerVars, syncVars, invoiceVars, upsertVars,
      financeVars, taxVars, guestsVars, linesVars, batchVars>>
notBatchVars ==
    <<mergeVars, ledgerVars, syncVars, invoiceVars, upsertVars,
      financeVars, taxVars, guestsVars, linesVars, datesVars>>

(***************************************************************************)
(* Python values                                                           *)
(***************************************************************************)
PyNone == [t |-> "none", v |-> 0]
PyStr(s) == [t |-> "str", v |-> s]
PyNum(n) == [t |-> "num", v |-> n]

\* str.strip() on the strings of the model
Strip(s) ==
    CASE s = " " -> ""
      [] s = " A" -> "A"
      [] s = "A " -> "A"
      [] OTHER -> s

\* dict.get(key, None)
Get(d, key) == IF key \in DOMAIN d THEN d[key] ELSE PyNone

(***************************************************************************)
(* ReservationMerger                                                       *)
(***************************************************************************)
FINANCIAL_FIELDS ==
    {"airbnb_fee", "lodgify_fee", "stripe_fee", "dynamic_fee", "total_fees",
     "vat_amount", "net_revenue", "payout_expected", "price_per_night",
     "price_per_guest_per_night"}

ALWAYS_OVERWRITE_FIELDS == {"country", "payout_expected"}

\* _is_empty
IsEmpty(value) ==
    IF value.t = "none" THEN TRUE
    ELSE IF value.t = "str" THEN Strip(value.v) = ""
    ELSE IF value.t = "num" THEN value.v = 0
    ELSE FALSE

IsBlankStr(value) == value.t = "str" /\ Strip(value.v) = ""

\* the financial branch with the emptiness test of _is_empty in place of the
\* branch's own test of None and blank strings
MergeFinancial_ByIsEmpty(existing_value, new_value) ==
    IF ~IsEmpty(new_value)
    THEN new_value
    ELSE IF ~IsEmpty(existing_value) THEN existing_value ELSE PyNum(0)

\* the branch of merge for a key in FINANCIAL_FIELDS
MergeFinancial(existing_value, new_value) ==
    IF new_value.t # "none" /\ ~IsBlankStr(new_value)
    THEN new_value
    ELSE IF existing_value.t # "none" THEN existing_value ELSE PyNum(0)

\* the branch of merge for a key in ALWAYS_OVERWRITE_FIELDS
MergeAlwaysOverwrite(existing_value, new_value) ==
    IF new_value.t # "none" THEN new_value ELSE PyStr("")

\* a plausible slip: the "existing keeps fields that new leaves empty" rule
\* assigns new_value
MergeOther_KeepsNew(existing_value, new_value) ==
    IF IsEmpty(existing_value) /\ ~IsEmpty(new_value) THEN new_value
    ELSE IF ~IsEmpty(existing_value) /\ IsEmpty(new_value) THEN new_value
    ELSE IF ~IsEmpty(existing_value) /\ ~IsEmpty(new_value) THEN new_value
    ELSE IF new_value.t # "none" THEN new_value ELSE existing_value

\* the four rules of merge for every other key
MergeOther(existing_value, new_value) ==
    IF IsEmpty(existing_value) /\ ~IsEmpty(new_value) THEN new_value
    ELSE IF ~IsEmpty(existing_value) /\ IsEmpty(new_value) THEN existing_value
    ELSE IF ~IsEmpty(existing_value) /\ ~IsEmpty(new_value) THEN new_value
    ELSE IF new_value.t # "none" THEN new_value ELSE existing_value

\* one iteration of "for key in all_keys": FINANCIAL_FIELDS is tested first
MergeField(key, existing, new) ==
    IF key \in FINANCIAL_FIELDS
    THEN MergeFinancial(Get(existing, key), Get(new, key))
    ELSE IF key \in ALWAYS_OVERWRITE_FIELDS
    THEN MergeAlwaysOverwrite(Get(existing, key), Get(new, key))
    ELSE MergeOther(Get(existing, key), Get(new, key))

\* a plausible slip: ^ (symmetric difference) typed for | (union)
AllKeys_SymDiff(existing, new) ==
    (DOMAIN existing \ DOMAIN new) \cup (DOMAIN new \ DOMAIN existing)

\* all_keys = set(existing.keys()) | set(new.keys())
AllKeys(existing, new) == DOMAIN existing \cup DOMAIN new

\* ReservationMerger.merge
Merge(existing, new) ==
    [key \in AllKeys(existing, new) |-> MergeField(key, existing, new)]

(***************************************************************************)
(* SpecMerge: merge applied to bounded records, import after import        *)
(***************************************************************************)
MaxKeys == 2
MaxImports == 2

\* one key of each class: financial only, financial and always-overwrite,
\* always-overwrite only, neither
MergeKeys == {"vat_amount", "payout_expected", "country", "guest_phone"}

ExistingValues ==
    {PyNone, PyStr(""), PyStr(" "), PyNum(0), PyStr("x"), PyNum(7)}
IncomingValues ==
    {PyNone, PyStr(""), PyStr(" "), PyNum(0), PyStr("y"), PyNum(7)}

\* the dicts over a subset of keys
Dicts(keys, values) == UNION {[d -> values] : d \in SUBSET keys}

MergeIdle ==
    /\ mKeys = {}
    /\ mIncoming = <<>>
    /\ mStored = <<>>
    /\ mPrev = <<>>
    /\ mCount = 0
    /\ mImports = 0

MergeInit ==
    /\ mKeys \in {k \in SUBSET MergeKeys : Cardinality(k) <= MaxKeys}
    /\ mStored \in Dicts(mKeys, ExistingValues)
    /\ mIncoming \in Dicts(mKeys, IncomingValues)
    /\ mPrev = mStored
    /\ mCount = 0
    /\ mImports = 1

\* an import: the stored record becomes merge(stored, incoming)
MergeStep ==
    /\ mCount = 0
    /\ mPrev' = mStored
    /\ mStored' = Merge(mStored, mIncoming)
    /\ mCount' = 1
    /\ UNCHANGED <<mKeys, mIncoming, mImports>>
    /\ UNCHANGED notMergeVars

\* the same import run again over the merged record
MergeAgain ==
    /\ mCount = 1
    /\ mPrev' = mStored
    /\ mStored' = Merge(mStored, mIncoming)
    /\ mCount' = 2
    /\ UNCHANGED <<mKeys, mIncoming, mImports>>
    /\ UNCHANGED notMergeVars

\* a later import brings another incoming record for the same stored record
Reimport ==
    /\ mCount >= 1
    /\ mImports < MaxImports
    /\ mIncoming' \in Dicts(mKeys, IncomingValues)
    /\ mPrev' = mStored
    /\ mCount' = 0
    /\ mImports' = mImports + 1
    /\ UNCHANGED <<mKeys, mStored>>
    /\ UNCHANGED notMergeVars

MergeNext == MergeStep \/ MergeAgain \/ Reimport


(***************************************************************************)
(* StateManager / InvoiceStateManager                                      *)
(***************************************************************************)
\* StateManager._empty_state
EmptyState == [imported_ids |-> {}, notes_filled |-> {}]

\* InvoiceStateManager._empty_state
InvoiceEmptyState ==
    [imported_invoice_ids |-> {}, notes_filled_invoice_ids |-> {}]

\* the state file: absent, holding a JSON document, or holding text that
\* json.load rejects (a truncated or partly written document)
FileAbsent == [kind |-> "absent", state |-> <<>>]
FileCorrupt == [kind |-> "corrupt", state |-> <<>>]
FileOf(state) == [kind |-> "valid", state |-> state]

\* StateManager.__init__: load the file, or the empty state when the file is
\* absent or json.load raises
LoadState(file) == IF file.kind = "valid" THEN file.state ELSE EmptyState

\* InvoiceStateManager.__init__
LoadInvoiceState(file) ==
    IF file.kind = "valid" THEN file.state ELSE InvoiceEmptyState

\* save(): open(path, 'w') truncates the file, json.dump writes it.
\*   "ok"         the document is written
\*   "fail_open"  open raises (the file is left as it was); save re-raises
\*   "fail_write" the write raises after the truncation (disk full, I/O
\*                error): the file holds a partial document; save re-raises
SaveOutcomes == {"ok", "fail_open", "fail_write"}

Save(file, state, outcome) ==
    CASE outcome = "ok" -> FileOf(state)
      [] outcome = "fail_open" -> file
      [] outcome = "fail_write" -> FileCorrupt

\* a mark_imported that leaves self.state as it was
MarkImportedMem_Noop(state, reservation_id) == state

\* mark_imported: self.state after the call (assigned before save is called)
MarkImportedMem(state, reservation_id) ==
    LET rid == Strip(reservation_id)
    IN  IF rid = "" THEN state
        ELSE IF rid \notin state.imported_ids
             THEN [state EXCEPT !.imported_ids = @ \cup {rid}]
             ELSE state

\* mark_imported: whether the call reaches self.save()
MarkImportedSaves(state, reservation_id) ==
    LET rid == Strip(reservation_id)
    IN  rid # "" /\ rid \notin state.imported_ids

\* mark_notes_filled
MarkNotesFilledMem(state, reservation_id) ==
    LET rid == Strip(reservation_id)
    IN  IF rid = "" THEN state
        ELSE IF rid \notin state.notes_filled
             THEN [state EXCEPT !.notes_filled = @ \cup {rid}]
             ELSE state

MarkNotesFilledSaves(state, reservation_id) ==
    LET rid == Strip(reservation_id)
    IN  rid # "" /\ rid \notin state.notes_filled

\* already_imported
AlreadyImported(state, reservation_id) ==
    LET rid == Strip(reservation_id)
    IN  IF rid = "" THEN FALSE ELSE rid \in state.imported_ids

\* notes_already_filled
NotesAlreadyFilled(state, reservation_id) ==
    LET rid == Strip(reservation_id)
    IN  IF rid = "" THEN FALSE ELSE rid \in state.notes_filled

\* mark_invoice_imported
MarkInvoiceImportedMem(state, reservation_id) ==
    LET rid == Strip(reservation_id)
    IN  IF rid = "" THEN state
        ELSE IF rid \notin state.imported_invoice_ids
             THEN [state EXCEPT !.imported_invoice_ids = @ \cup {rid}]
             ELSE state

MarkInvoiceImportedSaves(state, reservation_id) ==
    LET rid == Strip(reservation_id)
    IN  rid # "" /\ rid \notin state.imported_invoice_ids

\* invoice_already_imported
InvoiceAlreadyImported(state, reservation_id) ==
    LET rid == Strip(reservation_id)
    IN  IF rid = "" THEN FALSE ELSE rid \in state.imported_invoice_ids

(***************************************************************************)
(* SpecLedger: one process at a time constructs a manager over the state   *)
(* file and calls its mark methods; saves may fail; the process may be     *)
(* restarted.  SpecShared: two processes hold a manager over one file.     *)
(***************************************************************************)
Procs == {"p", "q"}

\* ids as callers pass them: "A" also with surrounding whitespace, and the
\* blank ids "" and " "
LedgerIds == {"A", " A", "B", "", " "}

NoManager == [live |-> FALSE, state |-> <<>>]
Manager(state) == [live |-> TRUE, state |-> state]

NoCall ==
    [op |-> "none", proc |-> "p", id |-> "", ret |-> TRUE, wrote |-> FALSE,
     changed |-> FALSE, again |-> FALSE]

LedgerIdle ==
    /\ lKind = "none"
    /\ lFile = FileAbsent
    /\ lMem = [p \in Procs |-> NoManager]
    /\ lAcked = [imported |-> {}, notes |-> {}]
    /\ lLast = NoCall

\* StateManager() / InvoiceStateManager() constructed over no state file
LedgerInit ==
    /\ lKind \in {"reservations", "invoices"}
    /\ lFile = FileAbsent
    /\ lMem = [p \in Procs |->
                 IF p = "p"
                 THEN Manager(IF lKind = "reservations"
                              THEN LoadState(lFile)
                              ELSE LoadInvoiceState(lFile))
                 ELSE NoManager]
    /\ lAcked = [imported |-> {}, notes |-> {}]
    /\ lLast = NoCall

\* a process (re)starts: a fresh manager object is constructed over the file
Construct(p) ==
    /\ lKind \in {"reservations", "invoices"}
    /\ lMem' = [lMem EXCEPT ![p] =
                  Manager(IF lKind = "reservations"
                          THEN LoadState(lFile)
                          ELSE LoadInvoiceState(lFile))]
    /\ lLast' = [NoCall EXCEPT !.op = "init", !.proc = p]
    /\ UNCHANGED <<lKind, lFile, lAcked>>
    /\ UNCHANGED notLedgerVars

\* the common shape of a mark call of process p: newState is self.state
\* after the assignment, saves whether save() is reached, outcome what the
\* save does; the call returns normally unless the save raises
MarkCall(p, op, list, id, newState, saves, outcome) ==
    LET ret == ~saves \/ outcome = "ok"
        file2 == IF saves THEN Save(lFile, newState, outcome) ELSE lFile
    IN  /\ lMem[p].live
        /\ lMem' = [lMem EXCEPT ![p] = Manager(newState)]
        /\ lFile' = file2
        /\ lAcked' = IF ret /\ Strip(id) # ""
                     THEN [lAcked EXCEPT ![list] = @ \cup {Strip(id)}]
                     ELSE lAcked
        /\ lLast' = [op |-> op, proc |-> p, id |-> id, ret |-> ret,
                     wrote |-> saves /\ outcome # "fail_open",
                     changed |-> newState # lMem[p].state \/ file2 # lFile,
                     again |-> Strip(id) \in lAcked[list]]
        /\ UNCHANGED lKind
        /\ UNCHANGED notLedgerVars

MarkImported(p, id, outcome) ==
    /\ lKind = "reservations"
    /\ MarkCall(p, "mark_imported", "imported", id,
                MarkImportedMem(lMem[p].state, id),
                MarkImportedSaves(lMem[p].state, id), outcome)

MarkNotesFilled(p, id, outcome) ==
    /\ lKind = "reservations"
    /\ MarkCall(p, "mark_notes_filled", "notes", id,
                MarkNotesFilledMem(lMem[p].state, id),
                MarkNotesFilledSaves(lMem[p].state, id), outcome)

MarkInvoiceImported(p, id, outcome) ==
    /\ lKind = "invoices"
    /\ MarkCall(p, "mark_invoice_imported", "imported", id,
                MarkInvoiceImportedMem(lMem[p].state, id),
                MarkInvoiceImportedSaves(lMem[p].state, id), outcome)

\* the process is killed while save() is writing: the file was truncated by
\* open(path, 'w') and holds a partial document; the manager object is gone
KilledInSave(p) ==
    /\ lMem[p].live
    /\ lFile' = FileCorrupt
    /\ lMem' = [lMem EXCEPT ![p] = NoManager]
    /\ lLast' = [NoCall EXCEPT !.op = "killed", !.proc = p, !.ret = FALSE,
                                !.wrote = TRUE, !.changed = TRUE]
    /\ UNCHANGED <<lKind, lAcked>>
    /\ UNCHANGED notLedgerVars

LedgerNext ==
    \/ Construct("p")
    \/ \E id \in LedgerIds, o \in SaveOutcomes : MarkImported("p", id, o)
    \/ \E id \in LedgerIds, o \in SaveOutcomes : MarkNotesFilled("p", id, o)
    \/ \E id \in LedgerIds, o \in SaveOutcomes : MarkInvoiceImported("p", id, o)
    \/ KilledInSave("p")

SharedNext ==
    \/ \E p \in Procs : Construct(p)
    \/ \E p \in Procs, id \in LedgerIds : MarkImported(p, id, "ok")
    \/ \E p \in Procs, id \in LedgerIds : MarkNotesFilled(p, id, "ok")
    \/ \E p \in Procs, id \in LedgerIds : MarkInvoiceImported(p, id, "ok")

(***************************************************************************)
(* Orchestrator.sync_reservations_csv: runs of the import loop and of the  *)
(* notes backfill over the reservations sheet and the reservation ledger.  *)
(* One action is one loop iteration (or the start / the end of a run); the *)
(* outcomes of the calls that leave the process (sheet reads and writes,   *)
(* ledger saves) are chosen by the environment.                            *)
(***************************************************************************)
MaxRows == 2      \* rows of a CSV file
MaxRuns == 2      \* runs of a pipeline

CsvIds == {"A", "B"}

\* a CSV row: Id, Status and TotalAmount (the other columns do not steer
\* the loop)
CsvRows ==
    [Id : CsvIds, Status : {"Booked", "Declined"}, TotalAmount : {0, 100}]

\* generate_financial_notes returns a non-empty dict iff some financial
\* amount is non-zero (`if vat_amount:` ...): iff the total price is
HasNotes(total_price) == total_price # 0

\* upsert_reservation: the row whose reservation_id matches (0 when none)
FindRow(sheet, reservation_id) ==
    IF \E j \in 1..Len(sheet) : sheet[j].reservation_id = reservation_id
    THEN CHOOSE j \in 1..Len(sheet) :
             /\ sheet[j].reservation_id = reservation_id
             /\ \A h \in 1..(j - 1) : sheet[h].reservation_id # reservation_id
    ELSE 0

\* upsert_reservation: update the matching row in place, else append a row
UpsertRow(sheet, reservation_id, total_price) ==
    LET j == FindRow(sheet, reservation_id)
        row == [reservation_id |-> reservation_id, total_price |-> total_price]
    IN  IF j # 0 THEN [sheet EXCEPT ![j] = row] ELSE Append(sheet, row)

\* upsert_reservation as the loop sees it:
\*   "ok"            the row is written, the call returns
\*   "raise"         a read or the write raises: nothing is written
\*   "raise_noted"   the row is written, then attaching the notes (or the
\*                   read-back of the appended row) raises
UpsertOutcomes == {"ok", "raise", "raise_noted"}

\* `continue` / the end of the loop body: the for loop takes the next row
NextIndex(i) == i + 1

\* an except clause that would not count: error_count left as it is
CountError_Dropped(error_count) == error_count

\* except Exception: error_count += 1
CountError(error_count) == error_count + 1

NoExisting == [ok |-> FALSE, rows |-> <<>>]

NoStep ==
    [op |-> "none", k |-> 0, id |-> "", errors |-> 0, mem |-> FALSE,
     persisted |-> FALSE, upsert |-> FALSE, ret |-> FALSE]

SyncIdle ==
    /\ sFile = FileAbsent
    /\ sState = EmptyState
    /\ sSheet = <<>>
    /\ sExisting = NoExisting
    /\ sPhase = "off"
    /\ sLen = 0
    /\ sIdx = 1
    /\ sProcessed = 0
    /\ sErrors = 0
    /\ sRuns = 0
    /\ sPersisted = {}
    /\ sLast = NoStep

\* before the first run: no state file, an empty reservations sheet
SyncInit ==
    /\ sFile = FileAbsent
    /\ sState = EmptyState
    /\ sSheet = <<>>
    /\ sExisting = NoExisting
    /\ sPhase = "idle"
    /\ sLen = 0
    /\ sIdx = 1
    /\ sProcessed = 0
    /\ sErrors = 0
    /\ sRuns = 0
    /\ sPersisted = {}
    /\ sLast = NoStep

\* ids the state file holds in imported_ids
FileImported(file) ==
    IF file.kind = "valid" THEN file.state.imported_ids ELSE {}

\* a step record of the import loop for the row at position sIdx
LoopStep(op, id, upsert) ==
    [op |-> op, k |-> sIdx, id |-> id, errors |-> sErrors,
     mem |-> AlreadyImported(sState, id),
     persisted |-> id \in sPersisted, upsert |-> upsert, ret |-> FALSE]

\* the run returns before the loop: no CSV file, load_csv or
\* validate_columns or get_headers raises (return False), or the file has
\* no rows (return True)
SyncReturnsEarly(ret) ==
    /\ sPhase = "idle"
    /\ sRuns < MaxRuns
    /\ sRuns' = sRuns + 1
    /\ sState' = LoadState(sFile)
    /\ sLast' = [NoStep EXCEPT !.op = "return", !.ret = ret]
    /\ UNCHANGED <<sFile, sSheet, sExisting, sPhase, sLen, sIdx, sProcessed,
                   sErrors, sPersisted>>
    /\ UNCHANGED notSyncVars

\* the run reaches the loop: StateManager() loads the file, the CSV file has
\* n rows, get_reservations_data returned (existing_reservations is the
\* sheet) or raised (existing_lookup = {}, existing_reservations unbound)
SyncStart(n, loaded) ==
    /\ sPhase = "idle"
    /\ sRuns < MaxRuns
    /\ sRuns' = sRuns + 1
    /\ sState' = LoadState(sFile)
    /\ sExisting' = IF loaded THEN [ok |-> TRUE, rows |-> sSheet]
                    ELSE NoExisting
    /\ sPhase' = "loop"
    /\ sLen' = n
    /\ sIdx' = 1
    /\ sProcessed' = 0
    /\ sErrors' = 0
    /\ sLast' = [NoStep EXCEPT !.op = "start"]
    /\ UNCHANGED <<sFile, sSheet, sPersisted>>
    /\ UNCHANGED notSyncVars

\* the loop is at a row
AtRow == sPhase = "loop" /\ sIdx <= sLen

\* map_csv_row returns None: Status is not "Booked"
SyncRowIgnored(r) ==
    /\ AtRow
    /\ r.Status # "Booked"
    /\ sIdx' = NextIndex(sIdx)
    /\ sLast' = LoopStep("ignored", r.Id, FALSE)
    /\ UNCHANGED <<sFile, sState, sSheet, sExisting, sPhase, sLen,
                   sProcessed, sErrors, sRuns, sPersisted>>
    /\ UNCHANGED notSyncVars

\* state.already_imported(reservation_id): continue
SyncRowSkipped(r) ==
    /\ AtRow
    /\ r.Status = "Booked"
    /\ AlreadyImported(sState, r.Id)
    /\ sIdx' = NextIndex(sIdx)
    /\ sLast' = LoopStep("skipped", r.Id, FALSE)
    /\ UNCHANGED <<sFile, sState, sSheet, sExisting, sPhase, sLen,
                   sProcessed, sErrors, sRuns, sPersisted>>
    /\ UNCHANGED notSyncVars

\* the notes the loop passes to upsert_reservation are non-empty
LoopNotes(r) == ~NotesAlreadyFilled(sState, r.Id) /\ HasNotes(r.TotalAmount)

\* an exception before mark_imported is called: map_csv_row, merge or
\* calculate_financials raises (where = "map"), or upsert_reservation does
SyncRowRaises(r, where) ==
    /\ AtRow
    /\ where \in {"map"} \cup (UpsertOutcomes \ {"ok"})
    /\ where # "map" => r.Status = "Booked" /\ ~AlreadyImported(sState, r.Id)
    /\ where = "raise_noted" =>
           FindRow(sSheet, r.Id) = 0 \/ LoopNotes(r)
    /\ sSheet' = IF where = "raise_noted"
                 THEN UpsertRow(sSheet, r.Id, r.TotalAmount)
                 ELSE sSheet
    /\ sErrors' = CountError(sErrors)
    /\ sIdx' = NextIndex(sIdx)
    /\ sLast' = LoopStep("raised", r.Id, FALSE)
    /\ UNCHANGED <<sFile, sState, sExisting, sPhase, sLen, sProcessed,
                   sRuns, sPersisted>>
    /\ UNCHANGED notSyncVars

\* the row reaches upsert_reservation and the upsert returns
Upserted(r) ==
    /\ AtRow
    /\ r.Status = "Booked"
    /\ ~AlreadyImported(sState, r.Id)
    /\ sSheet' = UpsertRow(sSheet, r.Id, r.TotalAmount)
    /\ sIdx' = NextIndex(sIdx)
    /\ UNCHANGED <<sExisting, sPhase, sLen, sRuns>>
    /\ UNCHANGED notSyncVars

\* upsert returned, state.mark_imported raises (its save fails): the id is
\* already in self.state
SyncRowMarkFails(r, outcome) ==
    /\ Upserted(r)
    /\ outcome # "ok"
    /\ sState' = MarkImportedMem(sState, r.Id)
    /\ sFile' = Save(sFile, sState', outcome)
    /\ sPersisted' = sPersisted \cup FileImported(sFile')
    /\ sErrors' = CountError(sErrors)
    /\ sLast' = LoopStep("mark_failed", r.Id, TRUE)
    /\ UNCHANGED sProcessed

\* upsert and mark_imported returned, state.mark_notes_filled raises
SyncRowNotesMarkFails(r, outcome) ==
    /\ Upserted(r)
    /\ LoopNotes(r)
    /\ outcome # "ok"
    /\ LET state1 == MarkImportedMem(sState, r.Id)
           file1 == Save(sFile, state1, "ok")
       IN  /\ sState' = MarkNotesFilledMem(state1, r.Id)
           /\ sFile' = Save(file1, sState', outcome)
           /\ sPersisted' =
                  sPersisted \cup FileImported(file1) \cup FileImported(sFile')
    /\ sErrors' = CountError(sErrors)
    /\ sLast' = LoopStep("notes_mark_failed", r.Id, TRUE)
    /\ UNCHANGED sProcessed

\* the whole loop body runs: processed_count += 1
SyncRowProcessed(r) ==
    /\ Upserted(r)
    /\ LET state1 == MarkImportedMem(sState, r.Id)
       IN  sState' = IF LoopNotes(r) THEN MarkNotesFilledMem(state1, r.Id)
                     ELSE state1
    /\ sFile' = Save(sFile, sState', "ok")
    /\ sPersisted' = sPersisted \cup FileImported(sFile')
    /\ sProcessed' = sProcessed + 1
    /\ sLast' = LoopStep("processed", r.Id, TRUE)
    /\ UNCHANGED sErrors

\* the loop is over.  The rows the loop writes have status "Booked", so the
\* removal of non-booked rows deletes none of them; the backfill iterates
\* existing_reservations (unbound when the load failed: the NameError is
\* caught and the run returns)
SyncLoopEnds ==
    /\ sPhase = "loop"
    /\ sIdx > sLen
    /\ sPhase' = "backfill"
    /\ sIdx' = 1
    /\ sLast' = [NoStep EXCEPT !.op = "loop_end", !.k = sIdx - 1,
                                !.errors = sErrors]
    /\ UNCHANGED <<sFile, sState, sSheet, sExisting, sLen, sProcessed,
                   sErrors, sRuns, sPersisted>>
    /\ UNCHANGED notSyncVars

AtExisting == sPhase = "backfill" /\ sIdx <= Len(sExisting.rows)

\* backfill: the row needs no notes (filled already, not imported, or no
\* notes to write)
BackfillSkips ==
    /\ AtExisting
    /\ LET res == sExisting.rows[sIdx]
       IN  \/ NotesAlreadyFilled(sState, res.reservation_id)
           \/ ~AlreadyImported(sState, res.reservation_id)
           \/ ~HasNotes(res.total_price)
    /\ sIdx' = NextIndex(sIdx)
    /\ sLast' = [NoStep EXCEPT !.op = "backfill_skip", !.k = sIdx]
    /\ UNCHANGED <<sFile, sState, sSheet, sExisting, sPhase, sLen,
                   sProcessed, sErrors, sRuns, sPersisted>>
    /\ UNCHANGED notSyncVars

\* backfill: upsert_reservation(final_dict built from the row as loaded at
\* the start of the run) and mark_notes_filled; an exception of either is
\* caught by the inner try
BackfillFills(upsert, outcome) ==
    /\ AtExisting
    /\ LET res == sExisting.rows[sIdx]
           rid == res.reservation_id
       IN  /\ ~NotesAlreadyFilled(sState, rid)
           /\ AlreadyImported(sState, rid)
           /\ HasNotes(res.total_price)
           /\ sSheet' = IF upsert = "raise" THEN sSheet
                        ELSE UpsertRow(sSheet, rid, res.total_price)
           /\ sState' = IF upsert = "ok" THEN MarkNotesFilledMem(sState, rid)
                        ELSE sState
           /\ sFile' = IF upsert = "ok" THEN Save(sFile, sState', outcome)
                       ELSE sFile
    /\ sPersisted' = sPersisted \cup FileImported(sFile')
    /\ sIdx' = NextIndex(sIdx)
    /\ sLast' = [NoStep EXCEPT !.op = "backfill", !.k = sIdx]
    /\ UNCHANGED <<sExisting, sPhase, sLen, sProcessed, sErrors, sRuns>>
    /\ UNCHANGED notSyncVars

\* return processed_count > 0 or len(rows) == 0
SyncReturns ==
    /\ sPhase = "backfill"
    /\ sIdx > Len(sExisting.rows)
    /\ sPhase' = "idle"
    /\ sLast' = [NoStep EXCEPT !.op = "return", !.k = sLen,
                                !.errors = sErrors,
                                !.ret = (sProcessed > 0 \/ sLen = 0)]
    /\ sState' = EmptyState
    /\ sExisting' = NoExisting
    /\ sLen' = 0
    /\ sIdx' = 1
    /\ sProcessed' = 0
    /\ sErrors' = 0
    /\ UNCHANGED <<sFile, sSheet, sRuns, sPersisted>>
    /\ UNCHANGED notSyncVars

SyncNext ==
    \/ \E ret \in BOOLEAN : SyncReturnsEarly(ret)
    \/ \E n \in 1..MaxRows, loaded \in BOOLEAN : SyncStart(n, loaded)
    \/ \E r \in CsvRows : SyncRowIgnored(r)
    \/ \E r \in CsvRows : SyncRowSkipped(r)
    \/ \E r \in CsvRows, where \in {"map", "raise", "raise_noted"} :
           SyncRowRaises(r, where)
    \/ \E r \in CsvRows, o \in SaveOutcomes : SyncRowMarkFails(r, o)
    \/ \E r \in CsvRows, o \in SaveOutcomes : SyncRowNotesMarkFails(r, o)
    \/ \E r \in CsvRows : SyncRowProcessed(r)
    \/ SyncLoopEnds
    \/ BackfillSkips
    \/ \E u \in UpsertOutcomes, o \in SaveOutcomes : BackfillFills(u, o)
    \/ SyncReturns

(***************************************************************************)
(* InvoiceService.generate_all_invoices, debug or not: runs of the         *)
(* per-reservation loop over the invoice sheet and the invoice ledger.     *)
(***************************************************************************)
\* the reservations sheet as get_reservations_data returns it, sorted by
\* reservation_date: a row without id, an airbnb and a website reservation
Reservations ==
    << [reservation_id |-> " ", origin |-> "website"],
       [reservation_id |-> "A", origin |-> "airbnb"],
       [reservation_id |-> "B", origin |-> "website"] >>

InvoiceIds == {"A", "B"}

ExpectedLines_OneLine(origin) == 1

\* expected_lines = 1 if origin == "airbnb" else 3; generate_invoice_lines
\* builds as many lines
ExpectedLines(origin) == IF origin = "airbnb" THEN 1 ELSE 3

NoLines == [id \in InvoiceIds |-> 0]

\* reservation_line_counts.get(reservation_id, 0)
LineCount(counts, reservation_id) ==
    IF reservation_id \in DOMAIN counts THEN counts[reservation_id] ELSE 0

\* write_invoice_lines_batch: one append of all the lines of a reservation
AppendLines(invoices, reservation_id, n) ==
    [invoices EXCEPT ![reservation_id] = @ + n]

InvoiceIdle ==
    /\ iFile = FileAbsent
    /\ iState = InvoiceEmptyState
    /\ iInvoices = NoLines
    /\ iCounts = NoLines
    /\ iPhase = "off"
    /\ iIdx = 1
    /\ iGenerated = 0
    /\ iErrors = 0
    /\ iRuns = 0
    /\ iLast = NoStep
    /\ iDebug = FALSE

\* before the first run: no state file, an empty invoice sheet
InvoiceInit ==
    /\ iFile = FileAbsent
    /\ iState = InvoiceEmptyState
    /\ iInvoices = NoLines
    /\ iCounts = NoLines
    /\ iPhase = "idle"
    /\ iIdx = 1
    /\ iGenerated = 0
    /\ iErrors = 0
    /\ iRuns = 0
    /\ iLast = NoStep
    /\ iDebug = FALSE

InvoiceStep(op, id) ==
    [op |-> op, k |-> iIdx, id |-> id, errors |-> iErrors,
     mem |-> InvoiceAlreadyImported(iState, id),
     persisted |-> FALSE, upsert |-> FALSE, ret |-> FALSE]

\* get_reservations_data, get_sef_data or get_headers raises: return False
InvReturnsEarly ==
    /\ iPhase = "idle"
    /\ iRuns < MaxRuns
    /\ iRuns' = iRuns + 1
    /\ iState' = LoadInvoiceState(iFile)
    /\ iLast' = [NoStep EXCEPT !.op = "return"]
    /\ UNCHANGED <<iFile, iInvoices, iCounts, iPhase, iIdx, iGenerated,
                   iErrors, iDebug>>
    /\ UNCHANGED notInvoiceVars

\* the run reaches the loop: InvoiceStateManager() loads the file;
\* get_invoices_data returned (the lines are counted per reservation id) or
\* raised (reservation_line_counts = {}); debug is the method's argument
InvStart(loaded, debug) ==
    /\ iPhase = "idle"
    /\ iRuns < MaxRuns
    /\ iRuns' = iRuns + 1
    /\ iDebug' = debug
    /\ iState' = LoadInvoiceState(iFile)
    /\ iCounts' = IF loaded THEN iInvoices ELSE NoLines
    /\ iPhase' = "loop"
    /\ iIdx' = 1
    /\ iGenerated' = 0
    /\ iErrors' = 0
    /\ iLast' = [NoStep EXCEPT !.op = "start"]
    /\ UNCHANGED <<iFile, iInvoices>>
    /\ UNCHANGED notInvoiceVars

AtReservation == iPhase = "loop" /\ iIdx <= Len(Reservations)

\* the loop moves to the next reservation, the sheets and ledger untouched
InvMovesOn ==
    /\ iIdx' = NextIndex(iIdx)
    /\ UNCHANGED <<iFile, iState, iInvoices, iCounts, iPhase, iGenerated,
                   iRuns, iDebug>>
    /\ UNCHANGED notInvoiceVars

\* if not reservation_id: continue
InvRowBlank ==
    /\ AtReservation
    /\ Strip(Reservations[iIdx].reservation_id) = ""
    /\ InvMovesOn
    /\ iLast' = InvoiceStep("blank", "")
    /\ UNCHANGED iErrors

\* a reservation with an id that passes the ledger check: not in the
\* invoice ledger, or any id in debug mode (if not debug: ... continue)
ToGenerate(rid) ==
    /\ AtReservation
    /\ rid = Strip(Reservations[iIdx].reservation_id)
    /\ rid # ""
    /\ iDebug \/ ~InvoiceAlreadyImported(iState, rid)

\* invoice_already_imported(reservation_id): skip
InvRowSkippedByLedger ==
    /\ AtReservation
    /\ ~iDebug
    /\ LET rid == Strip(Reservations[iIdx].reservation_id)
       IN  /\ InvoiceAlreadyImported(iState, rid)
           /\ iLast' = InvoiceStep("skipped", rid)
    /\ InvMovesOn
    /\ UNCHANGED iErrors

\* the sheet already holds the expected number of lines: mark and skip; a
\* failing save raises into the loop's except
InvRowSkippedByCount(outcome) ==
    \E rid \in InvoiceIds :
        /\ ToGenerate(rid)
        /\ ~iDebug
        /\ LineCount(iCounts, rid) >= ExpectedLines(Reservations[iIdx].origin)
        /\ iState' = MarkInvoiceImportedMem(iState, rid)
        /\ iFile' = Save(iFile, iState', outcome)
        /\ iErrors' = IF outcome = "ok" THEN iErrors ELSE CountError(iErrors)
        /\ iLast' = InvoiceStep(IF outcome = "ok" THEN "counted"
                                ELSE "mark_failed", rid)
        /\ iIdx' = NextIndex(iIdx)
        /\ UNCHANGED <<iInvoices, iCounts, iPhase, iGenerated, iRuns, iDebug>>
        /\ UNCHANGED notInvoiceVars

\* debug mode, the sheet already holds the expected number of lines: skip
\* without marking (if not debug: mark_invoice_imported)
InvRowCountedInDebug ==
    \E rid \in InvoiceIds :
        /\ ToGenerate(rid)
        /\ iDebug
        /\ LineCount(iCounts, rid) >= ExpectedLines(Reservations[iIdx].origin)
        /\ InvMovesOn
        /\ iLast' = InvoiceStep("counted_debug", rid)
        /\ UNCHANGED iErrors

\* lines are due, and nothing is written: a date parse or
\* generate_invoice_lines raises, or write_invoice_lines returns False
InvRowFails(op) ==
    \E rid \in InvoiceIds :
        /\ ToGenerate(rid)
        /\ LineCount(iCounts, rid) < ExpectedLines(Reservations[iIdx].origin)
        /\ op \in {"raised", "write_failed"}
        /\ op = "write_failed" => ~iDebug
        /\ InvMovesOn
        /\ iErrors' = CountError(iErrors)
        /\ iLast' = InvoiceStep(op, rid)

\* debug mode: the lines are generated and collected in preview_data;
\* write_invoice_lines and mark_invoice_imported are not called
InvRowPreviewed ==
    \E rid \in InvoiceIds :
        /\ ToGenerate(rid)
        /\ iDebug
        /\ LineCount(iCounts, rid) < ExpectedLines(Reservations[iIdx].origin)
        /\ InvMovesOn
        /\ iLast' = InvoiceStep("previewed", rid)
        /\ UNCHANGED iErrors

\* the lines are appended to the invoice sheet, then mark_invoice_imported
InvRowWritten(outcome) ==
    \E rid \in InvoiceIds :
        /\ ToGenerate(rid)
        /\ ~iDebug
        /\ LineCount(iCounts, rid) < ExpectedLines(Reservations[iIdx].origin)
        /\ iInvoices' = AppendLines(iInvoices, rid,
                                    ExpectedLines(Reservations[iIdx].origin))
        /\ iState' = MarkInvoiceImportedMem(iState, rid)
        /\ iFile' = Save(iFile, iState', outcome)
        /\ iGenerated' = IF outcome = "ok" THEN iGenerated + 1 ELSE iGenerated
        /\ iErrors' = IF outcome = "ok" THEN iErrors ELSE CountError(iErrors)
        /\ iLast' = InvoiceStep(IF outcome = "ok" THEN "generated"
                                ELSE "mark_failed", rid)
        /\ iIdx' = NextIndex(iIdx)
        /\ UNCHANGED <<iCounts, iPhase, iRuns, iDebug>>
        /\ UNCHANGED notInvoiceVars

\* return generated_count > 0 or len(reservations) == 0
InvReturns ==
    /\ iPhase = "loop"
    /\ iIdx > Len(Reservations)
    /\ iPhase' = "idle"
    /\ iLast' = [NoStep EXCEPT !.op = "return", !.k = iIdx - 1,
                                !.errors = iErrors,
                                !.ret = (iGenerated > 0
                                         \/ Len(Reservations) = 0)]
    /\ iState' = InvoiceEmptyState
    /\ iCounts' = NoLines
    /\ iIdx' = 1
    /\ iGenerated' = 0
    /\ iErrors' = 0
    /\ iDebug' = FALSE
    /\ UNCHANGED <<iFile, iInvoices, iRuns>>
    /\ UNCHANGED notInvoiceVars

InvoiceNext ==
    \/ InvReturnsEarly
    \/ \E loaded, debug \in BOOLEAN : InvStart(loaded, debug)
    \/ InvRowBlank
    \/ InvRowSkippedByLedger
    \/ \E o \in SaveOutcomes : InvRowSkippedByCount(o)
    \/ InvRowCountedInDebug
    \/ InvRowPreviewed
    \/ \E op \in {"raised", "write_failed"} : InvRowFails(op)
    \/ \E o \in SaveOutcomes : InvRowWritten(o)
    \/ InvReturns

(***************************************************************************)
(* The path of one reservation's values through a run: map_csv_row,        *)
(* merge with the row loaded from the sheet, calculate_financials,         *)
(* upsert_reservation, and the sheet's storage of what is written.         *)
(* Amounts are whole numbers, rates are percentages.                       *)
(***************************************************************************)
\* the numerals of the amounts of the model, and the number each denotes
Numerals == {ToString(n) : n \in 0..100}

NumeralValue == [s \in Numerals |-> CHOOSE n \in 0..100 : ToString(n) = s]

\* float(value): [ok, v]; ok is FALSE where Python raises
Float(value) ==
    IF value.t = "num" THEN [ok |-> TRUE, v |-> value.v]
    ELSE IF value.t = "str" /\ Strip(value.v) \in Numerals
         THEN [ok |-> TRUE, v |-> NumeralValue[Strip(value.v)]]
         ELSE [ok |-> FALSE, v |-> 0]

\* str(value)
Str(value) ==
    IF value.t = "num" THEN PyStr(ToString(value.v))
    ELSE IF value.t = "none" THEN PyStr("None")
    ELSE value

\* bool(value)
Truthy(value) ==
    IF value.t = "none" THEN FALSE
    ELSE IF value.t = "str" THEN value.v # ""
    ELSE IF value.t = "text" THEN TRUE
    ELSE value.v # 0

\* dict.get(key, default)
GetOr(d, key, default) == IF key \in DOMAIN d THEN d[key] ELSE default

\* {**a, **b}
Update(a, b) ==
    [k \in DOMAIN a \cup DOMAIN b |-> IF k \in DOMAIN b THEN b[k] ELSE a[k]]

\* what read_range returns for a cell written with USER_ENTERED: a number
\* reads back as its numeral, a leading apostrophe marks text and is not
\* part of the cell, other text reads back as written
Cell(value) ==
    IF value.t = "num" THEN PyStr(ToString(value.v))
    ELSE IF value.v = "'+351" THEN PyStr("+351")
    ELSE IF value.v = "'+" THEN PyStr("+")
    ELSE value

\* _normalize_phone: "+" form with a leading quote, "" for no phone
NormalizePhone(phone_raw) ==
    IF phone_raw = "" THEN ""
    ELSE IF phone_raw = "+351" THEN "'+351"
    ELSE "'" \o phone_raw

\* _country_from_phone
CountryFromPhone(normalized_phone) ==
    IF normalized_phone = "'+351" THEN "Portugal" ELSE ""

\* the day of a "%Y-%m-%d" date of January 2025 (0: strptime raises)
DayOf(date) ==
    CASE date = "2025-01-02" -> 2
      [] date = "2025-01-05" -> 5
      [] OTHER -> 0

\* map_csv_row for a row with Status "Booked" and DateCreated 2025-01-02
MapCsvRow(row) ==
    LET normalized_phone == NormalizePhone(Strip(row.Phone))
        check_in == row.DateArrival
        reservation_date == "2025-01-02"
        nights_value ==
            IF row.Nights # "" /\ Float(PyStr(row.Nights)).ok
            THEN PyNum(Float(PyStr(row.Nights)).v) ELSE PyStr("")
        total_price ==
            IF row.TotalAmount # "" /\ Float(PyStr(row.TotalAmount)).ok
            THEN Float(PyStr(row.TotalAmount)).v ELSE 0
        lodgify_fee ==
            IF row.Source = "Website" THEN total_price \div 100 ELSE 0
    IN  [reservation_id |-> PyStr(Strip(row.Id)),
         guest_phone |-> PyStr(normalized_phone),
         country |-> PyStr(CountryFromPhone(normalized_phone)),
         check_in |-> PyStr(check_in),
         reservation_date |-> PyStr(reservation_date),
         nights |-> nights_value,
         total_price |-> PyNum(total_price),
         vat_amount |-> PyNum(0),
         anticipation_days |->
             IF check_in = "" \/ DayOf(check_in) = 0 THEN PyStr("")
             ELSE PyStr(ToString(DayOf(check_in) - DayOf(reservation_date))),
         lodgify_fee |-> PyNum(lodgify_fee),
         payout_expected |-> PyNum(total_price - lodgify_fee)]

\* _to_float: 0.0 where the value is no number
ToFloat(value) == IF Float(value).ok THEN Float(value).v ELSE 0

\* Amounts are counted in thousandths of the currency unit, so that a
\* carried fee may have a third decimal; rates are counted in percent.

\* the round(..., 2) calls of calculate_financials, by the key they fill
RoundSites ==
    {"airbnb_fee", "vat_amount", "total_fees", "net_revenue",
     "payout_expected", "price_per_night", "price_per_guest_per_night"}

\* the integer nearest to num / den (den > 0).  A quotient half-way between
\* two integers goes up at the sites in fTies and down at the others: which
\* way round() takes a decimal tie depends on the binary representation of
\* the operand, which this precision does not show.
RoundDiv(site, num, den) ==
    LET q == num \div den
        r == num % den
    IN  IF 2 * r < den THEN q
        ELSE IF 2 * r > den THEN q + 1
        ELSE IF site \in fTies THEN q + 1 ELSE q

\* round(x, 2) of an amount
Round2(site, x) == 10 * RoundDiv(site, x, 10)

\* str(origin).lower().strip()
LowerStrip(s) ==
    CASE s \in {"Airbnb", "Airbnb ", "AIRBNB", "airbnb"} -> "airbnb"
      [] s \in {"Website", "website"} -> "website"
      [] OTHER -> Strip(s)

\* the keys of the dict calculate_financials returns
BreakdownKeys ==
    {"airbnb_fee", "lodgify_fee", "stripe_fee", "dynamic_fee", "total_fees",
     "vat_amount", "net_revenue", "payout_expected", "anticipation_days",
     "price_per_night", "price_per_guest_per_night"}

\* the dict calculate_financials returns from its except clause, without
\* the lead time
ZeroFinancials_NoLeadTime ==
    [k \in BreakdownKeys \ {"anticipation_days"} |-> PyNum(0)]

\* the dict calculate_financials returns from its except clause
ZeroFinancials ==
    [k \in BreakdownKeys |->
        IF k = "anticipation_days" THEN PyStr("") ELSE PyNum(0)]

\* the sum of the four fees without the dynamic fee
TotalFees_NoDynamic(airbnb_fee, lodgify_fee, stripe_fee, dynamic_fee) ==
    airbnb_fee + lodgify_fee + stripe_fee

\* total_fees before rounding
TotalFees(airbnb_fee, lodgify_fee, stripe_fee, dynamic_fee) ==
    airbnb_fee + lodgify_fee + stripe_fee + dynamic_fee

\* the statements of the try block that raise: the float() conversions of
\* the record and of the configuration, and split()[0] of a date that is
\* whitespace only (IndexError, which the inner except does not catch)
TryRaises(normalized_reservation, config) ==
    LET reservation_date ==
            GetOr(normalized_reservation, "reservation_date", PyStr(""))
        check_in == GetOr(normalized_reservation, "check_in", PyStr(""))
    IN  \/ ~Float(GetOr(normalized_reservation, "total_price", PyNum(0))).ok
        \/ ~Float(GetOr(normalized_reservation, "nights", PyNum(0))).ok
        \/ ~Float(GetOr(normalized_reservation, "guests_count", PyNum(1))).ok
        \/ ~Float(GetOr(config, "VAT_RATE", PyNum(0))).ok
        \/ ~Float(GetOr(config, "AIRBNB_FEE_PERCENT", PyNum(0))).ok
        \/ ~Float(GetOr(config, "LODGIFY_FEE_PERCENT", PyNum(0))).ok
        \/ /\ Truthy(reservation_date) /\ Truthy(check_in)
           /\ reservation_date.t = "str" /\ check_in.t = "str"
           /\ \/ Strip(reservation_date.v) = ""
              \/ DayOf(reservation_date.v) # 0 /\ Strip(check_in.v) = ""

\* the dict the try block returns when nothing raises
TryBlock(normalized_reservation, config) ==
    LET origin ==
            LowerStrip(Str(GetOr(normalized_reservation, "origin",
                                 PyStr(""))).v)
        total_price ==
            Float(GetOr(normalized_reservation, "total_price", PyNum(0))).v
        nights == Float(GetOr(normalized_reservation, "nights", PyNum(0))).v
        guests_count ==
            Float(GetOr(normalized_reservation, "guests_count", PyNum(1))).v
        reservation_date ==
            GetOr(normalized_reservation, "reservation_date", PyStr(""))
        check_in == GetOr(normalized_reservation, "check_in", PyStr(""))
        vat_rate == Float(GetOr(config, "VAT_RATE", PyNum(0))).v
        airbnb_fee_percent ==
            Float(GetOr(config, "AIRBNB_FEE_PERCENT", PyNum(0))).v
        airbnb_fee ==
            IF origin = "airbnb"
            THEN 10 * RoundDiv("airbnb_fee",
                               total_price * airbnb_fee_percent, 1000)
            ELSE 0
        lodgify_fee ==
            ToFloat(GetOr(normalized_reservation, "lodgify_fee", PyNum(0)))
        stripe_fee ==
            ToFloat(GetOr(normalized_reservation, "stripe_fee", PyNum(0)))
        dynamic_fee ==
            ToFloat(GetOr(normalized_reservation, "dynamic_fee", PyNum(0)))
        vat_amount ==
            10 * RoundDiv("vat_amount", total_price * vat_rate, 1000)
        total_fees == TotalFees(airbnb_fee, lodgify_fee, stripe_fee,
                                dynamic_fee)
        delta == DayOf(check_in.v) - DayOf(reservation_date.v)
        dated ==
            /\ Truthy(reservation_date) /\ Truthy(check_in)
            /\ reservation_date.t = "str" /\ check_in.t = "str"
            /\ DayOf(reservation_date.v) # 0 /\ DayOf(check_in.v) # 0
    IN  [airbnb_fee |-> PyNum(airbnb_fee),
         lodgify_fee |-> PyNum(lodgify_fee),
         stripe_fee |-> PyNum(stripe_fee),
         dynamic_fee |-> PyNum(dynamic_fee),
         total_fees |-> PyNum(Round2("total_fees", total_fees)),
         vat_amount |-> PyNum(vat_amount),
         net_revenue |->
             PyNum(Round2("net_revenue",
                          total_price - total_fees - vat_amount)),
         payout_expected |->
             PyNum(Round2("payout_expected",
                          total_price - airbnb_fee - lodgify_fee
                              - stripe_fee)),
         anticipation_days |->
             IF dated THEN PyNum(IF delta < 0 THEN 0 ELSE delta)
             ELSE PyStr(""),
         price_per_night |->
             IF nights > 0
             THEN PyNum(10 * RoundDiv("price_per_night", total_price,
                                      10 * nights))
             ELSE PyNum(0),
         price_per_guest_per_night |->
             IF nights > 0 /\ guests_count > 0
             THEN PyNum(10 * RoundDiv("price_per_guest_per_night",
                                      total_price,
                                      10 * nights * guests_count))
             ELSE PyNum(0)]

\* calculate_financials: the dict of the try block, or the dict of the
\* except clause when a statement of the try block raises
CalculateFinancials(normalized_reservation, config) ==
    IF TryRaises(normalized_reservation, config) THEN ZeroFinancials
    ELSE TryBlock(normalized_reservation, config)

(***************************************************************************)
(* SpecFinance: calculate_financials applied to a booking record and a     *)
(* rate configuration                                                      *)
(***************************************************************************)
BookingRecords ==
    [origin : {PyStr("Airbnb "), PyStr("website")},
     total_price : {PyNum(0), PyNum(100), PyNum(250), PyStr(""),
                    PyStr("100")},
     nights : {PyNum(0), PyNum(3), PyStr("")},
     guests_count : {PyNum(2), PyStr("")},
     lodgify_fee : {PyNone, PyNum(5), PyStr("x")},
     stripe_fee : {PyNum(12)},
     dynamic_fee : {PyNum(0), PyNum(30)},
     reservation_date : {PyStr("2025-01-02")},
     check_in : {PyStr("2025-01-05"), PyStr(""), PyStr(" ")}]

RateConfigs ==
    [VAT_RATE : {PyNum(6), PyStr("x")}, AIRBNB_FEE_PERCENT : {PyNum(15)}]

NoBreakdown == <<>>

FinanceIdle ==
    /\ fRecord = <<>>
    /\ fConfig = <<>>
    /\ fTies = {}
    /\ fResult = NoBreakdown
    /\ fCount = 0

\* a booking record, a configuration, and the way each rounding takes a tie
FinanceInit ==
    /\ fRecord \in BookingRecords
    /\ fConfig \in RateConfigs
    /\ fTies \in SUBSET RoundSites
    /\ fResult = NoBreakdown
    /\ fCount = 0

\* the call calculate_financials(normalized_reservation, config)
Calculate ==
    /\ fCount = 0
    /\ fResult' = CalculateFinancials(fRecord, fConfig)
    /\ fCount' = 1
    /\ UNCHANGED <<fRecord, fConfig, fTies>>
    /\ UNCHANGED notFinanceVars

FinanceNext == Calculate

\* the header row of the reservations sheet
Headers ==
    <<"reservation_id", "guest_phone", "country", "check_in", "nights",
      "total_price", "lodgify_fee", "vat_amount", "payout_expected",
      "price_per_night", "anticipation_days">>

HeaderSet == {Headers[j] : j \in 1..Len(Headers)}

\* upsert_reservation: fee_fields and numeric_fields
FeeFields == {"airbnb_fee", "lodgify_fee", "stripe_fee", "dynamic_fee"}

NumericFields ==
    {"total_price", "vat_amount", "airbnb_fee", "lodgify_fee", "stripe_fee",
     "dynamic_fee", "total_fees", "net_revenue", "payout_expected",
     "price_per_night", "price_per_guest_per_night", "anticipation_days"}

\* _empty_if_zero
EmptyIfZero(value) ==
    IF Float(Str(value)).ok
    THEN IF Float(Str(value)).v = 0 THEN PyStr("")
         ELSE PyNum(Float(Str(value)).v)
    ELSE value

\* zero hiding applied to the fee fields of a dict
HideZeroFees(d) ==
    [k \in DOMAIN d |-> IF k \in FeeFields THEN EmptyIfZero(d[k]) ELSE d[k]]

\* value is None or value == "" or a whitespace-only str
Blank(value) == value.t = "none" \/ IsBlankStr(value)

\* float(existing_value) of the update path's fallback, 0.0 where the cell
\* is empty or no number
ExistingNumber(existing_row_data, header) ==
    LET existing_value == GetOr(existing_row_data, header, PyStr(""))
    IN  IF Truthy(existing_value) /\ ~IsBlankStr(existing_value)
        THEN PyNum(ToFloat(existing_value))
        ELSE PyNum(0)

\* the guest_phone branch: str with a leading quote
PhoneValue(value) ==
    IF value.t = "none" \/ value = PyStr("") THEN PyStr("")
    ELSE IF Str(value).v = "'+351" THEN Str(value)
    ELSE PyStr("'" \o Str(value).v)

\* the value upsert_reservation writes for a header; fallback is the value
\* the numeric branch falls back to
RowValue(header, value, fallback) ==
    IF header \in NumericFields
    THEN IF header \in FeeFields /\ value = PyStr("") THEN value
         ELSE IF Blank(value) THEN fallback
         ELSE IF Float(value).ok THEN PyNum(Float(value).v)
         ELSE fallback
    ELSE IF header = "guest_phone" THEN PhoneValue(value)
    ELSE IF value.t = "none" THEN PyStr("")
    ELSE Str(value)

\* upsert_reservation: the index of the first row whose reservation_id cell
\* equals the id (0 when there is none)
FindRowIndex(all_data, reservation_id) ==
    LET hits == {j \in 1..Len(all_data) :
                    Strip(all_data[j]["reservation_id"].v) = reservation_id}
    IN  IF hits = {} THEN 0
        ELSE CHOOSE j \in hits : \A h \in hits : j <= h

\* upsert_reservation, update path: the row values written over row j
UpdatedRow(existing_row_data, reservation_dict) ==
    LET merged_dict == HideZeroFees(Merge(existing_row_data, reservation_dict))
    IN  [h \in HeaderSet |->
            Cell(RowValue(h, GetOr(merged_dict, h, PyStr("")),
                          ExistingNumber(existing_row_data, h)))]

\* upsert_reservation, insert path: the row values appended
InsertedRow(reservation_dict) ==
    LET hidden == HideZeroFees(reservation_dict)
    IN  [h \in HeaderSet |->
            Cell(RowValue(h, GetOr(hidden, h, PyStr("")), PyNum(0)))]

\* upsert_reservation on the sheet
UpsertReservation(sheet, reservation_dict) ==
    LET reservation_id == Str(reservation_dict["reservation_id"]).v
        j == FindRowIndex(sheet, reservation_id)
    IN  IF j # 0
        THEN [sheet EXCEPT ![j] = UpdatedRow(sheet[j],
                                             reservation_dict)]
        ELSE Append(sheet, InsertedRow(reservation_dict))

\* existing_lookup.get(reservation_id, {}) over the rows as loaded
ExistingLookup(existing_reservations, reservation_id) ==
    LET hits == {j \in 1..Len(existing_reservations) :
                    Strip(Str(existing_reservations[j]["reservation_id"]).v)
                        = reservation_id}
    IN  IF hits = {} THEN <<>>
        ELSE existing_reservations[CHOOSE j \in hits : \A h \in hits : j >= h]

\* the body of the import loop for one mapped row, up to the return of
\* upsert_reservation: the sheet it leaves.  loaded: get_reservations_data
\* returned (else existing_lookup = {})
ImportRow(sheet, mapped, config, loaded) ==
    LET reservation_id == mapped["reservation_id"].v
        existing == IF loaded THEN ExistingLookup(sheet, reservation_id)
                    ELSE <<>>
        merged == IF DOMAIN existing # {} THEN Merge(existing, mapped)
                  ELSE mapped
        financials == CalculateFinancials(merged, config)
        final_dict == Update(merged, financials)
    IN  UpsertReservation(sheet, final_dict)

(***************************************************************************)
(* SpecUpsert: runs that import one CSV row and stop after the return of   *)
(* upsert_reservation, before mark_imported has persisted; the next run    *)
(* finds the id not imported and processes the row of its file again.      *)
(***************************************************************************)
MaxFiles == 2     \* CSV files (versions of the reservation's row)

UpsertCsvRows ==
    [Id : {"A", "B"}, Phone : {"", "+351"}, Nights : {"", "2"},
     TotalAmount : {"", "100"}, Source : {"Website", "Airbnb"},
     DateArrival : {"", "2025-01-05"}]

Configs == [VAT_RATE : {PyNum(0), PyNum(6)}]

UpsertIdle ==
    /\ uConfig = [VAT_RATE |-> PyNum(0)]
    /\ uCsvRow = <<>>
    /\ uSheet = <<>>
    /\ uPrev = <<>>
    /\ uCount = 0
    /\ uFiles = 0

\* an empty reservations sheet, a configuration, the row of the first file
UpsertInit ==
    /\ uConfig \in Configs
    /\ uCsvRow \in UpsertCsvRows
    /\ uSheet = <<>>
    /\ uPrev = <<>>
    /\ uCount = 0
    /\ uFiles = 1

\* a run imports the row and stops before mark_imported persists
InterruptedRun(loaded) ==
    /\ uFiles >= 1
    /\ uCount = 0
    /\ uSheet' = ImportRow(uSheet, MapCsvRow(uCsvRow), uConfig, loaded)
    /\ uPrev' = uSheet'
    /\ uCount' = 1
    /\ UNCHANGED <<uConfig, uCsvRow, uFiles>>
    /\ UNCHANGED notUpsertVars

\* the next run, over the same file and configuration
Reprocess(loaded) ==
    /\ uCount = 1
    /\ uSheet' = ImportRow(uSheet, MapCsvRow(uCsvRow), uConfig, loaded)
    /\ uPrev' = uSheet
    /\ uCount' = 2
    /\ UNCHANGED <<uConfig, uCsvRow, uFiles>>
    /\ UNCHANGED notUpsertVars

\* a later export of the CSV file carries another row
NewFile ==
    /\ uCount >= 1
    /\ uFiles < MaxFiles
    /\ uCsvRow' \in UpsertCsvRows \ {uCsvRow}
    /\ uCount' = 0
    /\ uFiles' = uFiles + 1
    /\ UNCHANGED <<uConfig, uSheet, uPrev>>
    /\ UNCHANGED notUpsertVars

UpsertNext ==
    \/ \E loaded \in BOOLEAN : InterruptedRun(loaded)
    \/ \E loaded \in BOOLEAN : Reprocess(loaded)
    \/ NewFile


(***************************************************************************)
(* Dates.  A datetime.date is the number of its day, counted from          *)
(* 1970-01-01.  A str that spells three numbers with a separator is the    *)
(* value Text(sep, a, b, c): "2025-06-01" is Text("-", 2025, 6, 1) and     *)
(* "13/06/2025" is Text("/", 13, 6, 2025).  A year is written with four    *)
(* digits or with two (then it is at least 10: a year field below 10       *)
(* stands for a single digit), a month and a day with one or two.          *)
(***************************************************************************)
Text(sep, a, b, c) ==
    [t |-> "text", v |-> [sep |-> sep, a |-> a, b |-> b, c |-> c]]

\* the same date string followed by a time of day, as in
\* "2025-08-24 07:45:10"
TimedText(sep, a, b, c) ==
    [t |-> "text",
     v |-> [sep |-> sep, a |-> a, b |-> b, c |-> c, time |-> "07:45:10"]]

HasTime(date_string) == "time" \in DOMAIN date_string.v

\* a float: its whole part and its fraction in thousandths
PyFloat(whole, frac) ==
    [t |-> "float", v |-> [whole |-> whole, frac |-> frac]]

\* int(value) of an int or a float
IntOf(value) == IF value.t = "float" THEN value.v.whole ELSE value.v

\* calendar.isleap
IsLeap(y) == (y % 4 = 0 /\ y % 100 # 0) \/ y % 400 = 0

DaysInMonth(y, m) ==
    IF m = 2 THEN (IF IsLeap(y) THEN 29 ELSE 28)
    ELSE IF m \in {4, 6, 9, 11} THEN 30 ELSE 31

\* date(y, m, d) does not raise, with no test of the month
ValidDate_AnyMonth(y, m, d) ==
    /\ y \in 1..9999
    /\ d >= 1 /\ d <= DaysInMonth(y, m)

\* date(y, m, d) does not raise
ValidDate(y, m, d) ==
    /\ y \in 1..9999
    /\ m \in 1..12
    /\ d >= 1 /\ d <= DaysInMonth(y, m)

\* date(y, m, d), as the number of its day
DaysFromCivil(y, m, d) ==
    LET yy == IF m <= 2 THEN y - 1 ELSE y
        era == yy \div 400
        yoe == yy - era * 400
        mp == IF m > 2 THEN m - 3 ELSE m + 9
        doy == (153 * mp + 2) \div 5 + d - 1
        doe == yoe * 365 + yoe \div 4 - yoe \div 100 + doy
    IN  era * 146097 + doe - 719468

\* the year, month and day of a date
CivilFromDays(z) ==
    LET zz == z + 719468
        era == zz \div 146097
        doe == zz - era * 146097
        yoe == (doe - doe \div 1460 + doe \div 36524 - doe \div 146096)
                   \div 365
        doy == doe - (365 * yoe + yoe \div 4 - yoe \div 100)
        mp == (5 * doy + 2) \div 153
        d == doy - (153 * mp + 2) \div 5 + 1
        m == IF mp < 10 THEN mp + 3 ELSE mp - 9
    IN  [y |-> IF m <= 2 THEN yoe + era * 400 + 1 ELSE yoe + era * 400,
         m |-> m, d |-> d]

\* the strptime formats without a time: separator and order of fields
DateFormats ==
    [f \in {"%Y-%m-%d", "%Y/%m/%d", "%m/%d/%Y", "%d/%m/%Y", "%d-%m-%Y",
            "%y-%m-%d", "%y/%m/%d", "%d/%m/%y", "%d-%m-%y",
            "%Y-%m-%d %H:%M:%S", "%Y/%m/%d %H:%M:%S"} |->
        CASE f = "%Y-%m-%d" -> [sep |-> "-", order |-> "Ymd"]
          [] f = "%Y-%m-%d %H:%M:%S" -> [sep |-> "-", order |-> "Ymd"]
          [] f = "%Y/%m/%d %H:%M:%S" -> [sep |-> "/", order |-> "Ymd"]
          [] f = "%Y/%m/%d" -> [sep |-> "/", order |-> "Ymd"]
          [] f = "%m/%d/%Y" -> [sep |-> "/", order |-> "mdY"]
          [] f = "%d/%m/%Y" -> [sep |-> "/", order |-> "dmY"]
          [] f = "%d-%m-%Y" -> [sep |-> "-", order |-> "dmY"]
          [] f = "%y-%m-%d" -> [sep |-> "-", order |-> "ymd"]
          [] f = "%y/%m/%d" -> [sep |-> "/", order |-> "ymd"]
          [] f = "%d/%m/%y" -> [sep |-> "/", order |-> "dmy"]
          [] f = "%d-%m-%y" -> [sep |-> "-", order |-> "dmy"]]

\* the formats that end with a time of day
TimedFormats == {"%Y-%m-%d %H:%M:%S", "%Y/%m/%d %H:%M:%S"}

NoDate == [ok |-> FALSE, date |-> 0]

\* the year strptime reads for %y
TwoDigitYear(yy) == IF yy <= 68 THEN 2000 + yy ELSE 1900 + yy

\* datetime.strptime(date_string, format).date(): ok is FALSE where it
\* raises ValueError.  %Y takes four digits, %y two, %m and %d at most two.
Strptime(date_string, format) ==
    LET f == DateFormats[format]
        p == date_string.v
        year_field == IF f.order \in {"Ymd", "ymd"} THEN p.a ELSE p.c
        y == IF f.order \in {"ymd", "dmy"} THEN TwoDigitYear(year_field)
             ELSE year_field
        m == IF f.order = "mdY" THEN p.a ELSE p.b
        d == CASE f.order \in {"Ymd", "ymd"} -> p.c
               [] f.order = "mdY" -> p.b
               [] f.order \in {"dmY", "dmy"} -> p.a
        digits ==
            /\ IF f.order \in {"ymd", "dmy"}
               THEN year_field >= 10 /\ year_field <= 99
               ELSE year_field >= 1000 /\ year_field <= 9999
            /\ m <= 99 /\ d <= 99
    IN  IF date_string.t # "text" THEN NoDate
        ELSE IF HasTime(date_string) # (format \in TimedFormats) THEN NoDate
        ELSE IF p.sep # f.sep \/ ~digits THEN NoDate
        ELSE IF ~ValidDate(y, m, d) THEN NoDate
        ELSE [ok |-> TRUE, date |-> DaysFromCivil(y, m, d)]

\* the date printed day first
Strftime_DayFirst(date) ==
    LET c == CivilFromDays(date) IN Text("-", c.d, c.m, c.y)

\* date.strftime('%Y-%m-%d')
Strftime(date) ==
    LET c == CivilFromDays(date) IN Text("-", c.y, c.m, c.d)

\* the first format of formats (in order) that parses date_string
RECURSIVE TryFormats(_, _)
TryFormats(date_string, formats) ==
    IF formats = <<>> THEN NoDate
    ELSE IF Strptime(date_string, Head(formats)).ok
         THEN Strptime(date_string, Head(formats))
         ELSE TryFormats(date_string, Tail(formats))

\* datetime(1899, 12, 30), the epoch of a spreadsheet serial number
SerialEpoch == DaysFromCivil(1899, 12, 30)

\* normalize_date: [ok, v]; ok is FALSE where it raises ValueError
NormalizeDate(value) ==
    LET parsed ==
            TryFormats(value,
                       <<"%Y-%m-%d", "%Y/%m/%d", "%m/%d/%Y", "%d/%m/%Y">>)
    IN  IF value.t = "none" THEN [ok |-> FALSE, v |-> PyNone]
        ELSE IF value.t \in {"num", "float"}
             THEN IF ValidDate(CivilFromDays(SerialEpoch + IntOf(value)).y, 1, 1)
                  THEN [ok |-> TRUE, v |-> Strftime(SerialEpoch + IntOf(value))]
                  ELSE [ok |-> FALSE, v |-> PyNone]
        ELSE IF parsed.ok THEN [ok |-> TRUE, v |-> Strftime(parsed.date)]
        ELSE [ok |-> FALSE, v |-> PyNone]

(***************************************************************************)
(* calculate_tourist_tax                                                   *)
(***************************************************************************)
\* floor(days_old / 365.25)
AgeAtNight(days_old) == (4 * days_old) \div 1461

\* the loop over the nights with the test age_at_night > 16
ChargeableNights_Over16(check_in_date, dob_date, total_nights) ==
    Cardinality({i \in 0..(total_nights - 1) :
                    AgeAtNight(check_in_date + i - dob_date) > 16})

\* the loop over range(total_nights): the nights on which the guest is 16
\* or older
ChargeableNights(check_in_date, dob_date, total_nights) ==
    Cardinality({i \in 0..(total_nights - 1) :
                    AgeAtNight(check_in_date + i - dob_date) >= 16})

\* min without the second argument
Min_First(a, b) == a

\* min
Min(a, b) == IF a < b THEN a ELSE b

\* what a call of calculate_tourist_tax ends with
TaxRaised == [raised |-> "ValueError", amount |-> 0]
TaxReturned(tax_amount) == [raised |-> "", amount |-> tax_amount]

\* check_out_date <= check_in_date
InvalidStay(check_in_date, check_out_date) ==
    check_out_date <= check_in_date

\* calculate_tourist_tax; tToday is datetime.now().date()
CalculateTouristTax(check_in, check_out, dob) ==
    LET check_in_normalized == NormalizeDate(check_in)
        check_out_normalized == NormalizeDate(check_out)
        dob_normalized == NormalizeDate(dob)
        check_in_date == Strptime(check_in_normalized.v, "%Y-%m-%d")
        check_out_date == Strptime(check_out_normalized.v, "%Y-%m-%d")
        dob_date == Strptime(dob_normalized.v, "%Y-%m-%d")
        total_nights == check_out_date.date - check_in_date.date
        chargeable_nights ==
            ChargeableNights(check_in_date.date, dob_date.date,
                             total_nights)
        paid_nights == Min(chargeable_nights, 7)
    IN  IF \/ ~check_in_normalized.ok \/ ~check_out_normalized.ok
           \/ ~dob_normalized.ok
           \/ ~check_in_date.ok \/ ~check_out_date.ok \/ ~dob_date.ok
        THEN TaxRaised
        ELSE IF InvalidStay(check_in_date.date, check_out_date.date)
             THEN TaxReturned(0)
        ELSE IF dob_date.date > tToday THEN TaxReturned(0)
        ELSE IF total_nights <= 0 THEN TaxReturned(0)
        ELSE TaxReturned(paid_nights * 2)

(***************************************************************************)
(* SpecTax: calculate_tourist_tax called for a guest and a stay, and       *)
(* called again for the same guest and check-in with another check-out     *)
(***************************************************************************)
MaxStay == 9      \* nights of the longest stay

\* the ways a date is written in an argument
Spellings(date) ==
    LET c == CivilFromDays(date)
    IN  {Text("-", c.y, c.m, c.d), Text("/", c.y, c.m, c.d),
         Text("/", c.d, c.m, c.y), PyNum(date - SerialEpoch)}

\* arguments that are no date
Unparseable ==
    {PyNone, PyStr(""), PyStr("invalid-date"), PyStr("45478"),
     Text("-", 2025, 13, 1), Text("/", 2025, 2, 29)}

CheckIns == {DaysFromCivil(2025, 6, 1), DaysFromCivil(2024, 6, 13)}

Births ==
    {DaysFromCivil(2000, 1, 1), DaysFromCivil(2009, 6, 1),
     DaysFromCivil(2009, 6, 3), DaysFromCivil(2010, 6, 1),
     DaysFromCivil(2008, 6, 15), DaysFromCivil(2030, 1, 1)}

Todays == {DaysFromCivil(2025, 6, 2), DaysFromCivil(2026, 11, 6)}

\* the ways a birth date is written in an argument
BirthSpellings(date) ==
    LET c == CivilFromDays(date)
    IN  {Text("-", c.y, c.m, c.d), PyNum(date - SerialEpoch)}

\* the check-out arguments of the stays of a check-in
CheckOuts(check_in_date) ==
    UNION {Spellings(check_in_date + k) : k \in (0 - 1)..MaxStay}

\* the check-out arguments of a later call for the same check-in
LaterCheckOuts(check_in_date) ==
    {Strftime(check_in_date + k) : k \in (0 - 1)..MaxStay}

NoTax == [raised |-> "none", amount |-> 0]
NoArg == PyNone

TaxIdle ==
    /\ tCheckIn = NoArg
    /\ tCheckOut = NoArg
    /\ tDob = NoArg
    /\ tToday = 0
    /\ tResult = NoTax
    /\ tPrev = <<NoArg, NoTax>>
    /\ tCount = 0

\* the arguments of the first call, and the day of the calls
TaxInit ==
    /\ \E ci \in CheckIns, b \in Births :
        /\ tCheckIn \in Spellings(ci) \cup Unparseable
        /\ tCheckOut \in CheckOuts(ci) \cup Unparseable
        /\ tDob \in BirthSpellings(b) \cup Unparseable
        /\ Cardinality({tCheckIn, tCheckOut, tDob} \cap Unparseable) <= 1
    /\ tToday \in Todays
    /\ tResult = NoTax
    /\ tPrev = <<NoArg, NoTax>>
    /\ tCount = 0

\* the first call
TaxCall ==
    /\ tCount = 0
    /\ tResult' = CalculateTouristTax(tCheckIn, tCheckOut, tDob)
    /\ tCount' = 1
    /\ UNCHANGED <<tCheckIn, tCheckOut, tDob, tToday, tPrev>>
    /\ UNCHANGED notTaxVars

\* a later call with the same check_in and dob and another check_out
TaxCallAgain(check_out) ==
    /\ tCount = 1
    /\ tResult.raised = ""
    /\ tPrev' = <<tCheckOut, tResult>>
    /\ tCheckOut' = check_out
    /\ tResult' = CalculateTouristTax(tCheckIn, check_out, tDob)
    /\ tCount' = 2
    /\ UNCHANGED <<tCheckIn, tDob, tToday>>
    /\ UNCHANGED notTaxVars

TaxNext ==
    \/ TaxCall
    \/ \E ci \in CheckIns : \E check_out \in LaterCheckOuts(ci) :
           tCheckIn \in Spellings(ci) /\ TaxCallAgain(check_out)

(***************************************************************************)
(* InvoiceService: the dates of reservations and SEF forms, the primary    *)
(* guest of a reservation and its tourist tax                              *)
(***************************************************************************)
\* not raw or str(raw).strip() == ""
NoRaw(raw) == ~Truthy(raw) \/ IsBlankStr(raw)

\* date(y, m, d): ok FALSE where it raises ValueError
DateOf(y, m, d) ==
    IF ValidDate(y, m, d) THEN [ok |-> TRUE, date |-> DaysFromCivil(y, m, d)]
    ELSE NoDate

\* the first one or two digits of a field, as (\d{1,2}) takes them
FirstTwoDigits(n) ==
    IF n >= 1000 THEN n \div 100 ELSE IF n >= 100 THEN n \div 10 ELSE n

\* the fallback re.search(r"(\d{4})[-/](\d{1,2})[-/](\d{1,2})", text): a
\* match needs four digits before the first separator
FourDigitYearFallback(text) ==
    IF text.t = "text" /\ text.v.a >= 1000
    THEN DateOf(text.v.a % 10000, FirstTwoDigits(text.v.b),
                FirstTwoDigits(text.v.c))
    ELSE NoDate

\* the pivot of the two-digit-year fallback with the pivot of strptime
FallbackYear_AsStrptime(y) == IF y <= 68 THEN 2000 + y ELSE 1900 + y

\* year = 2000 + int(y) if int(y) < 50 else 1900 + int(y)
FallbackYear(y) == IF y < 50 THEN 2000 + y ELSE 1900 + y

\* the fallback re.search(r"(\d{2})[-/](\d{1,2})[-/](\d{1,2})", text): the
\* two digits before the first separator are the year
TwoDigitYearFallback(text) ==
    IF text.t = "text" /\ text.v.a >= 10
    THEN DateOf(FallbackYear(text.v.a % 100), FirstTwoDigits(text.v.b),
                FirstTwoDigits(text.v.c))
    ELSE NoDate

\* parse_sef_date: [ok, date], ok FALSE for None
ParseSefDate(raw) ==
    LET parsed ==
            TryFormats(raw,
                       <<"%y-%m-%d", "%y/%m/%d", "%Y/%m/%d", "%Y-%m-%d",
                         "%Y-%m-%d %H:%M:%S", "%Y/%m/%d %H:%M:%S",
                         "%d/%m/%Y", "%d-%m-%Y", "%d/%m/%y", "%d-%m-%y">>)
    IN  IF NoRaw(raw) THEN NoDate
        ELSE IF parsed.ok THEN parsed
        ELSE IF FourDigitYearFallback(raw).ok THEN FourDigitYearFallback(raw)
        ELSE TwoDigitYearFallback(raw)

\* _parse_reservation_date: [ok, date], ok FALSE for None
ParseReservationDate(raw) ==
    IF NoRaw(raw) THEN NoDate
    ELSE TryFormats(raw,
                    <<"%Y-%m-%d", "%Y/%m/%d", "%d/%m/%Y", "%d-%m-%Y">>)

\* str(name).lower().strip()
NameNorm(name) ==
    CASE name = "John Smith" -> "john smith"
      [] name = "john smith " -> "john smith"
      [] name = "Jane Doe" -> "jane doe"
      [] name = "Ana Maria Luz" -> "ana maria luz"
      [] name = "Ana Maria LuzQQQQQQQQQQQQQQ" -> "ana maria luzqqqqqqqqqqqqqq"
      [] OTHER -> Strip(name)

\* the sum of the sizes of SequenceMatcher(None, a, b).get_matching_blocks()
MatchingSize(a, b) ==
    CASE a = b -> Len(a)
      [] a = "john smith" /\ b = "jane doe" -> 2
      [] a = "john smith" /\ b = "ana maria luzqqqqqqqqqqqqqq" -> 4
      [] a = "ana maria luz" /\ b = "john smith" -> 4
      [] a = "ana maria luz" /\ b = "jane doe" -> 3
      [] a = "ana maria luz" /\ b = "ana maria luzqqqqqqqqqqqqqq" -> 13
      [] OTHER -> 0

\* a score is the fraction num / den
Score(num, den) == [num |-> num, den |-> den]

\* a >= b for two scores
Greater_OrEqual(a, b) == a.num * b.den >= b.num * a.den

\* a > b for two scores
Greater(a, b) == a.num * b.den > b.num * a.den

\* _fuzzy_match_score: SequenceMatcher.ratio() is 2.0 * matches / length
FuzzyMatchScore(name1, name2) ==
    IF name1 = "" \/ name2 = "" THEN Score(0, 1)
    ELSE IF NameNorm(name1) = "" \/ NameNorm(name2) = "" THEN Score(0, 1)
    ELSE Score(2 * MatchingSize(NameNorm(name1), NameNorm(name2)),
               Len(NameNorm(name1)) + Len(NameNorm(name2)))

\* the positions in sef_forms of the forms whose two parsed dates equal
\* the reservation's
MatchingDates(reservation_check_in, reservation_check_out, sef_forms) ==
    {j \in 1..Len(sef_forms) :
        LET sef_check_in == ParseSefDate(sef_forms[j]["Check-in date"])
            sef_check_out == ParseSefDate(sef_forms[j]["Check-out date"])
        IN  /\ sef_check_in.ok /\ sef_check_out.ok
            /\ reservation_check_in.ok /\ reservation_check_out.ok
            /\ sef_check_in.date = reservation_check_in.date
            /\ sef_check_out.date = reservation_check_out.date}

\* the loop of _match_primary_guest over matching_dates from position j:
\* [match, score] after the last form
RECURSIVE BestMatch(_, _, _, _, _)
BestMatch(guest_name, sef_forms, matching_dates, j, best) ==
    IF j > Len(sef_forms) THEN best
    ELSE IF j \notin matching_dates
         THEN BestMatch(guest_name, sef_forms, matching_dates, j + 1, best)
    ELSE LET score ==
                 FuzzyMatchScore(guest_name,
                                 Strip(Str(sef_forms[j]["Full Name"]).v))
         IN  BestMatch(guest_name, sef_forms, matching_dates, j + 1,
                       IF Greater(score, best.score)
                       THEN [match |-> j, score |-> score]
                       ELSE best)

\* the least position of a non-empty set of positions
First(positions) == CHOOSE j \in positions : \A k \in positions : j <= k

\* _match_primary_guest: the position in sef_forms of the form returned,
\* 0 for None
MatchPrimaryGuest(reservation, sef_forms) ==
    LET reservation_check_in ==
            ParseReservationDate(GetOr(reservation, "check_in", PyNone))
        reservation_check_out ==
            ParseReservationDate(GetOr(reservation, "check_out", PyNone))
        reservation_guest_name ==
            Strip(Str(GetOr(reservation, "guest_name", PyStr(""))).v)
        matching_dates ==
            MatchingDates(reservation_check_in, reservation_check_out,
                          sef_forms)
        best == BestMatch(reservation_guest_name, sef_forms, matching_dates,
                          1, [match |-> 0, score |-> Score(0, 1)])
    IN  IF ~reservation_check_in.ok \/ ~reservation_check_out.ok THEN 0
        ELSE IF matching_dates = {}
             THEN (IF sef_forms # <<>> THEN 1 ELSE 0)
        ELSE IF Greater(best.score, Score(13, 20)) THEN best.match
        ELSE First(matching_dates)

\* what a call of _calculate_tourist_tax ends with
BookingTaxRaised == [raised |-> "ValueError", amount |-> 0, count |-> 0]
BookingTax(tourist_tax, tt_guests_count) ==
    [raised |-> "", amount |-> tourist_tax, count |-> tt_guests_count]

\* _calculate_tourist_tax of InvoiceService, amounts in whole currency
\* units; float(nights) raises ValueError for a str that is no number
InvoiceCalculateTouristTax(reservation, sef_forms) ==
    LET nights == Float(GetOr(reservation, "nights", PyNum(0)))
        reservation_check_in ==
            ParseReservationDate(GetOr(reservation, "check_in", PyNone))
        reservation_check_out ==
            ParseReservationDate(GetOr(reservation, "check_out", PyNone))
        cutoff_date == DaysFromCivil(2025, 1, 1)
        matching_dates ==
            MatchingDates(reservation_check_in, reservation_check_out,
                          sef_forms)
        num_adults ==
            IF matching_dates = {} THEN Len(sef_forms)
            ELSE Cardinality(matching_dates)
    IN  IF ~nights.ok THEN BookingTaxRaised
        ELSE IF nights.v <= 0 THEN BookingTax(0, 0)
        ELSE IF \/ ~reservation_check_in.ok
                \/ reservation_check_in.date < cutoff_date
             THEN BookingTax(0, 0)
        ELSE IF num_adults = 0 THEN BookingTax(0, 0)
        ELSE BookingTax(num_adults * nights.v * 2, num_adults)

(***************************************************************************)
(* SpecGuests: a reservation and the SEF forms handed to                   *)
(* _match_primary_guest and _calculate_tourist_tax                         *)
(***************************************************************************)
MaxForms == 2     \* SEF forms of a reservation

\* the stay dates of a reservation as its sheet spells them
ReservationStays ==
    {<<Text("-", 2025, 6, 1), Text("-", 2025, 6, 5)>>,
     <<Text("/", 1, 6, 2025), Text("/", 5, 6, 2025)>>,
     <<Text("-", 2024, 6, 1), Text("-", 2024, 6, 5)>>,
     <<PyStr(""), Text("-", 2025, 6, 5)>>}

GuestReservations ==
    {[check_in |-> stay[1], check_out |-> stay[2], nights |-> nights,
      guest_name |-> PyStr(guest_name)] :
        stay \in ReservationStays,
        nights \in {PyNum(4), PyNum(10), PyNum(0), PyStr("")},
        guest_name \in {"John Smith", "Ana Maria Luz"}}

\* the stay dates of a SEF form as its sheet spells them
SefStays ==
    {<<Text("-", 2025, 6, 1), Text("-", 2025, 6, 5)>>,
     <<Text("-", 25, 6, 1), Text("/", 2025, 6, 5)>>,
     <<Text("-", 2025, 6, 2), Text("-", 2025, 6, 5)>>,
     <<PyStr(""), Text("-", 2025, 6, 5)>>}

\* the guests of the SEF forms: Jane Doe is a child
SefGuests ==
    {<<"john smith ", Text("-", 1990, 1, 1)>>,
     <<"Jane Doe", Text("-", 2015, 1, 1)>>,
     <<"Ana Maria LuzQQQQQQQQQQQQQQ", Text("-", 1990, 1, 1)>>}

SefForms ==
    {[k \in {"Full Name", "Date of Birth", "Check-in date",
             "Check-out date"} |->
         CASE k = "Full Name" -> PyStr(guest[1])
           [] k = "Date of Birth" -> guest[2]
           [] k = "Check-in date" -> stay[1]
           [] k = "Check-out date" -> stay[2]] :
        guest \in SefGuests, stay \in SefStays}

SefFormLists == UNION {[1..n -> SefForms] : n \in 0..MaxForms}

NoReservation == <<>>
NoBookingTax == [raised |-> "none", amount |-> 0, count |-> 0]
NoMatch == [called |-> FALSE, match |-> 0]

GuestsIdle ==
    /\ gReservation = NoReservation
    /\ gForms = <<>>
    /\ gTax = NoBookingTax
    /\ gMatch = NoMatch

GuestsInit ==
    /\ gReservation \in GuestReservations
    /\ gForms \in SefFormLists
    /\ gTax = NoBookingTax
    /\ gMatch = NoMatch

\* the call _match_primary_guest(reservation, sef_forms)
MatchGuest ==
    /\ ~gMatch.called
    /\ gMatch' = [called |-> TRUE,
                  match |-> MatchPrimaryGuest(gReservation, gForms)]
    /\ UNCHANGED <<gReservation, gForms, gTax>>
    /\ UNCHANGED notGuestsVars

\* the call _calculate_tourist_tax(reservation, sef_forms)
CalculateTax ==
    /\ gTax = NoBookingTax
    /\ gTax' = InvoiceCalculateTouristTax(gReservation, gForms)
    /\ UNCHANGED <<gReservation, gForms, gMatch>>
    /\ UNCHANGED notGuestsVars

GuestsNext == MatchGuest \/ CalculateTax

(***************************************************************************)
(* InvoiceService.generate_invoice_lines and the descriptions of its       *)
(* lines.  Amounts are counted in thousandths of the currency unit.        *)
(***************************************************************************)
\* normalize_price: 0.0 for None and for a str float() does not take
NormalizePrice(value) ==
    IF value.t = "none" THEN 0
    ELSE IF value.t = "num" THEN value.v
    ELSE IF Float(value).ok THEN Float(value).v
    ELSE 0

\* whether round(total_price * 0.30, 2) takes the tie upwards, as the
\* binary floating point of CPython decides it
DepositTieUp(total_price) ==
    CASE total_price = 50 -> FALSE
      [] total_price = 1050 -> TRUE
      [] OTHER -> FALSE

\* round(total_price * 0.30, 2)
DepositAmount(total_price) ==
    LET cents == (3 * total_price) \div 100
        rest == (3 * total_price) % 100
    IN  IF 2 * rest > 100 THEN 10 * (cents + 1)
        ELSE IF 2 * rest < 100 THEN 10 * cents
        ELSE IF DepositTieUp(total_price) THEN 10 * (cents + 1)
        ELSE 10 * cents

\* what _build_tourist_tax_description ends with
DescriptionRaised == [raised |-> "ValueError", text |-> "", guests |-> 0,
                      nights |-> 0]
EmptyDescription == [raised |-> "", text |-> "", guests |-> 0, nights |-> 0]
ErrorDescription ==
    [raised |-> "",
     text |-> "ERROR in tourist tax count - please review manually",
     guests |-> 0, nights |-> 0]
NormalDescription(tt_guests_count, nights) ==
    [raised |-> "", text |-> "Touristic Tax - guests x nights",
     guests |-> tt_guests_count, nights |-> nights]

\* the distance of tourist_tax / 2.0 / nights from tt_guests_count, times
\* 2000 * nights
Distance(tourist_tax, nights, tt_guests_count) ==
    IF tourist_tax >= 2000 * nights * tt_guests_count
    THEN tourist_tax - 2000 * nights * tt_guests_count
    ELSE 2000 * nights * tt_guests_count - tourist_tax

\* abs(inferred_guests - tt_guests_count) < 0.01 where the distance is
\* 0.01 in the reals: what the floating point of CPython answers
BelowAtTolerance(tourist_tax, nights, tt_guests_count) ==
    <<tourist_tax, nights, tt_guests_count>> \in {<<4020, 1, 2>>, <<8040, 2, 2>>}

\* the tolerance taken without the nights
Consistent_NoNights(tourist_tax, nights, tt_guests_count) ==
    Distance(tourist_tax, nights, tt_guests_count) < 20

\* abs(inferred_guests - tt_guests_count) < 0.01
Consistent(tourist_tax, nights, tt_guests_count) ==
    \/ Distance(tourist_tax, nights, tt_guests_count) < 20 * nights
    \/ /\ Distance(tourist_tax, nights, tt_guests_count) = 20 * nights
       /\ BelowAtTolerance(tourist_tax, nights, tt_guests_count)

\* _build_tourist_tax_description
BuildTouristTaxDescription(reservation, tourist_tax, tt_guests_count) ==
    LET nights == Float(GetOr(reservation, "nights", PyNum(0)))
    IN  IF tourist_tax <= 0 THEN EmptyDescription
        ELSE IF ~nights.ok THEN DescriptionRaised
        ELSE IF nights.v <= 0 THEN EmptyDescription
        ELSE IF Consistent(tourist_tax, nights.v, tt_guests_count)
             THEN NormalDescription(tt_guests_count, nights.v)
        ELSE ErrorDescription

\* _build_invoice_line: the SEF name when a primary guest with a name was
\* matched, the reservation's name otherwise
BuildInvoiceLine(reservation, primary_guest, invoice_type, lodging_amount, tourist_tax, tt_guests_count, guests_count) ==
    LET sef_full_name ==
            IF primary_guest = <<>> THEN ""
            ELSE Strip(Str(GetOr(primary_guest, "Full Name", PyStr(""))).v)
    IN  [invoice_type |-> invoice_type,
         invoice_status |-> "Forecast",
         guest_name |->
             IF sef_full_name # "" THEN sef_full_name
             ELSE Strip(Str(GetOr(reservation, "guest_name", PyStr(""))).v),
         guests_count |-> guests_count,
         tt_guests_count |-> tt_guests_count,
         lodging_amount |-> lodging_amount,
         tourist_tax |-> tourist_tax,
         total_amount |-> lodging_amount + tourist_tax,
         description_tourist_tax |->
             BuildTouristTaxDescription(reservation, tourist_tax,
                                        tt_guests_count)]

\* what generate_invoice_lines ends with
LinesRaised == [raised |-> "ValueError", lines |-> <<>>]
LinesReturned(invoice_lines) == [raised |-> "", lines |-> invoice_lines]

\* generate_invoice_lines, past the matching of the primary guest and the
\* calculation of the booking tax: the lines of the origin
InvoiceLinesOf(reservation, primary_guest, tax, total_price, guests_count) ==
    IF tax.raised # "" THEN LinesRaised
    ELSE IF ~guests_count.ok THEN LinesRaised
    ELSE IF LowerStrip(Str(GetOr(reservation, "origin", PyStr(""))).v)
                = "airbnb"
         THEN LinesReturned(
                  <<BuildInvoiceLine(reservation, primary_guest, "airbnb",
                                     total_price, 1000 * tax.amount,
                                     tax.count, guests_count.v)>>)
    ELSE LinesReturned(
             <<BuildInvoiceLine(reservation, primary_guest, "pre_invoice",
                                DepositAmount(total_price), 0, 0,
                                guests_count.v),
               BuildInvoiceLine(reservation, primary_guest, "credit_note",
                                0 - DepositAmount(total_price), 0, 0,
                                guests_count.v),
               BuildInvoiceLine(reservation, primary_guest, "final_invoice",
                                total_price, 1000 * tax.amount, tax.count,
                                guests_count.v)>>)

\* the form _match_primary_guest returned, <<>> for None
PrimaryGuest(sef_forms, match) ==
    IF match = 0 THEN <<>> ELSE sef_forms[match]

\* generate_invoice_lines
GenerateInvoiceLines(reservation, sef_forms) ==
    InvoiceLinesOf(
        reservation,
        PrimaryGuest(sef_forms, MatchPrimaryGuest(reservation, sef_forms)),
        InvoiceCalculateTouristTax(reservation, sef_forms),
        NormalizePrice(GetOr(reservation, "total_price", PyNum(0))),
        Float(GetOr(reservation, "guests_count", PyNum(0))))

(***************************************************************************)
(* SpecLines: a reservation and its SEF forms handed to                    *)
(* generate_invoice_lines, and calls of _build_tourist_tax_description     *)
(***************************************************************************)
LineReservations ==
    {[origin |-> PyStr(origin), total_price |-> total_price,
      nights |-> nights, guests_count |-> guests_count,
      check_in |-> Text("-", year, 6, 1), check_out |-> Text("-", year, 6, 5),
      guest_name |-> PyStr("John Smith")] :
        origin \in {"AIRBNB", "Airbnb ", "website", ""},
        total_price \in {PyNum(100000), PyNum(50), PyNum(1050), PyNum(0),
                         PyStr(""), PyNone},
        nights \in {PyNum(4), PyNum(0), PyStr("")},
        guests_count \in {PyNum(2), PyStr("")},
        year \in {2024, 2025}}

LineForm(name, day) ==
    [k \in {"Full Name", "Date of Birth", "Check-in date",
            "Check-out date"} |->
        CASE k = "Full Name" -> PyStr(name)
          [] k = "Date of Birth" -> Text("-", 1990, 1, 1)
          [] k = "Check-in date" -> Text("-", 2025, 6, day)
          [] k = "Check-out date" -> Text("-", 2025, 6, 5)]

LineFormLists ==
    {<<>>, <<LineForm("Jane Doe", 1)>>, <<LineForm("", 1)>>,
     <<LineForm("Jane Doe", 2)>>,
     <<LineForm("Jane Doe", 1), LineForm("john smith ", 1)>>}

\* the tourist_tax, nights and tt_guests_count arguments of the
\* description
TaxAmounts ==
    {0 - 1000, 0, 10, 1980, 2000, 2010, 2020, 3980, 4000, 4020, 4040, 5000,
     8040}
DescribedNights == {PyNum(0), PyNum(1), PyNum(2), PyStr("2"), PyStr("")}
TaxedCounts == 0..2

NoLinesResult == [raised |-> "none", lines |-> <<>>]
NoDescriptionArgs == <<>>
NoDescription == [raised |-> "none", text |-> "", guests |-> 0, nights |-> 0]

LinesIdle ==
    /\ nReservation = NoReservation
    /\ nForms = <<>>
    /\ nLines = NoLinesResult
    /\ nArgs = NoDescriptionArgs
    /\ nDescription = NoDescription

\* the arguments of one call of _build_tourist_tax_description
DescriptionArgs ==
    [nights : DescribedNights, tourist_tax : TaxAmounts,
     tt_guests_count : TaxedCounts]

\* the inputs of one call: a reservation and its forms for
\* generate_invoice_lines, or the arguments of a description
LinesInit ==
    /\ nLines = NoLinesResult
    /\ nDescription = NoDescription
    /\ \/ /\ nReservation \in LineReservations
          /\ nForms \in LineFormLists
          /\ nArgs = NoDescriptionArgs
       \/ /\ nReservation = NoReservation
          /\ nForms = <<>>
          /\ nArgs \in DescriptionArgs

\* the call generate_invoice_lines(reservation, sef_forms)
GenerateLines ==
    /\ nReservation # NoReservation
    /\ nLines = NoLinesResult
    /\ nLines' = GenerateInvoiceLines(nReservation, nForms)
    /\ UNCHANGED <<nReservation, nForms, nArgs, nDescription>>
    /\ UNCHANGED notLinesVars

\* the call _build_tourist_tax_description(reservation, tourist_tax,
\* tt_guests_count) for a reservation of the given nights
DescribeTax ==
    /\ nArgs # NoDescriptionArgs
    /\ nDescription = NoDescription
    /\ nDescription' =
           BuildTouristTaxDescription([nights |-> nArgs.nights],
                                      nArgs.tourist_tax,
                                      nArgs.tt_guests_count)
    /\ UNCHANGED <<nReservation, nForms, nLines, nArgs>>
    /\ UNCHANGED notLinesVars

LinesNext == GenerateLines \/ DescribeTax

(***************************************************************************)
(* SpecDates: values handed to normalize_date, its result handed to it     *)
(* again, and raw values handed to parse_sef_date                          *)
(***************************************************************************)
\* spreadsheet serial numbers: 45212 is 2023-10-13, 3000000 is past the
\* year 9999
Serials == {0, 1, 60, 36526, 45212, 45291, 3000000}

\* str(s) of a serial number
SerialString(s) == PyStr(ToString(s))

\* the serial number a str of digits spells
SerialOfString(value) == CHOOSE s \in Serials : SerialString(s) = value

\* the forms a serial number reaches normalize_date in: int, float, a float
\* with a time of day, str
SerialValues ==
    {PyNum(s) : s \in Serials} \cup {PyFloat(s, 0) : s \in Serials}
    \cup {PyFloat(s, 750) : s \in Serials}
    \cup {SerialString(s) : s \in Serials}

\* date strings in every order and separator, with dates that do not exist
DateTexts ==
    {Text(sep, a, b, c) :
        sep \in {"-", "/"},
        a \in {2025, 2024, 1, 12, 13, 31},
        b \in {2, 6, 12, 13},
        c \in {2025, 2024, 1, 29, 31}}

NormalizeInputs ==
    SerialValues \cup DateTexts \cup {PyNone, PyStr(""), PyStr(" ")}

\* raw SEF dates: two-digit years on both sides of the pivots, with and
\* without a time of day, and four-digit years
SefDateTexts ==
    {Text(sep, a, 6, c) :
        sep \in {"-", "/"},
        a \in {1, 25, 49, 50, 68, 69, 99, 2025},
        c \in {1, 31, 50, 68, 2025}}
    \cup {TimedText(sep, a, 6, c) :
        sep \in {"-", "/"},
        a \in {1, 25, 49, 50, 68, 69, 99, 2025},
        c \in {1, 31, 50, 68, 2025}}

SefDateInputs == SefDateTexts \cup {PyNone, PyStr(""), PyNum(45212)}

NoNormalized == [ok |-> FALSE, v |-> PyStr("not called")]
NoParsed == [ok |-> FALSE, date |-> 0 - 1]

DatesIdle ==
    /\ dValue = PyNone
    /\ dResult = NoNormalized
    /\ dAgain = NoNormalized
    /\ pRaw = PyNone
    /\ pDate = NoParsed

DatesInit ==
    /\ dValue \in NormalizeInputs
    /\ dResult = NoNormalized
    /\ dAgain = NoNormalized
    /\ pRaw \in SefDateInputs
    /\ pDate = NoParsed

\* the call normalize_date(value)
Normalize ==
    /\ dResult = NoNormalized
    /\ dResult' = NormalizeDate(dValue)
    /\ UNCHANGED <<dValue, dAgain, pRaw, pDate>>
    /\ UNCHANGED notDatesVars

\* the call normalize_date(result) on the str the first call returned
NormalizeAgain ==
    /\ dResult.ok
    /\ dAgain = NoNormalized
    /\ dAgain' = NormalizeDate(dResult.v)
    /\ UNCHANGED <<dValue, dResult, pRaw, pDate>>
    /\ UNCHANGED notDatesVars

\* the call parse_sef_date(raw)
ParseSef ==
    /\ pDate = NoParsed
    /\ pDate' = ParseSefDate(pRaw)
    /\ UNCHANGED <<dValue, dResult, dAgain, pRaw>>
    /\ UNCHANGED notDatesVars

DatesNext == Normalize \/ NormalizeAgain \/ ParseSef

(***************************************************************************)
(* SpecBatch: calls of write_invoice_lines_batch.  One action is the entry *)
(* of a call or one pass of its while loop; what the append request ends   *)
(* with is chosen by the environment.                                      *)
(***************************************************************************)
MaxBatchCalls == 3     \* calls of write_invoice_lines_batch

\* max_retries = 1
max_retries == 1

\* what .execute() ends with: it returns, raises HttpError with status 429
\* or with another status, or raises another exception
AppendOutcomes == {"ok", "429", "http", "other"}

\* the lines of one reservation: none, 1 (airbnb) or 3
BatchRows == {0, 1, 3}

\* a retry after any HttpError
MayRetry_AnyHttpError(outcome, retry_count) ==
    outcome \in {"429", "http"} /\ retry_count < max_retries

\* e.resp.status == 429 and retry_count < max_retries: sleep and continue
MayRetry(outcome, retry_count) ==
    outcome = "429" /\ retry_count < max_retries

BatchIdle ==
    /\ bRows = 0
    /\ bPc = "off"
    /\ bRetry = 0
    /\ bAttempts = <<>>
    /\ bResult = "none"
    /\ bCalls = 0
    /\ bSheet = 0

BatchInit ==
    /\ bRows = 0
    /\ bPc = "idle"
    /\ bRetry = 0
    /\ bAttempts = <<>>
    /\ bResult = "none"
    /\ bCalls = 0
    /\ bSheet = 0

\* write_invoice_lines_batch(reservation_id, rows) is entered: return False
\* for no rows, else retry_count = 0 and the while loop
BatchCall(rows) ==
    /\ bPc \in {"idle", "returned"}
    /\ bCalls < MaxBatchCalls
    /\ bCalls' = bCalls + 1
    /\ bRows' = rows
    /\ bRetry' = 0
    /\ bAttempts' = <<>>
    /\ IF rows = 0
       THEN bPc' = "returned" /\ bResult' = "False"
       ELSE bPc' = "loop" /\ bResult' = "none"
    /\ UNCHANGED bSheet
    /\ UNCHANGED notBatchVars

\* one pass of `while retry_count <= max_retries`: the append request and
\* what follows it.  Every pass returns or leaves retry_count <= max_retries,
\* so the `return False` after the loop is never reached.
BatchAttempt(outcome) ==
    /\ bPc = "loop"
    /\ bRetry <= max_retries
    /\ bAttempts' = Append(bAttempts, outcome)
    /\ bSheet' = IF outcome = "ok" THEN bSheet + bRows ELSE bSheet
    /\ IF outcome = "ok"
       THEN bPc' = "returned" /\ bResult' = "True" /\ UNCHANGED bRetry
       ELSE IF MayRetry(outcome, bRetry)
       THEN bPc' = "loop" /\ bRetry' = bRetry + 1 /\ UNCHANGED bResult
       ELSE bPc' = "returned" /\ bResult' = "False" /\ UNCHANGED bRetry
    /\ UNCHANGED <<bRows, bCalls>>
    /\ UNCHANGED notBatchVars

BatchNext ==
    \/ \E rows \in BatchRows : BatchCall(rows)
    \/ \E outcome \in AppendOutcomes : BatchAttempt(outcome)

(***************************************************************************)
(* Specifications                                                          *)
(***************************************************************************)
\* the parts a specification does not exercise
\* the invoice lines and the date functions
MoreIdle == LinesIdle /\ DatesIdle /\ BatchIdle

PureIdle == FinanceIdle /\ TaxIdle /\ GuestsIdle /\ MoreIdle

InitMerge ==
    /\ MergeInit /\ LedgerIdle /\ SyncIdle /\ InvoiceIdle /\ UpsertIdle
    /\ PureIdle
InitLedger ==
    /\ LedgerInit /\ MergeIdle /\ SyncIdle /\ InvoiceIdle /\ UpsertIdle
    /\ PureIdle
InitUpsert ==
    /\ UpsertInit /\ MergeIdle /\ LedgerIdle /\ SyncIdle /\ InvoiceIdle
    /\ PureIdle
\* the parts the specifications of the pure functions do not exercise
PipelinesIdle ==
    MergeIdle /\ LedgerIdle /\ SyncIdle /\ InvoiceIdle /\ UpsertIdle

InitFinance ==
    FinanceInit /\ PipelinesIdle /\ TaxIdle /\ GuestsIdle /\ MoreIdle
InitTax == TaxInit /\ PipelinesIdle /\ FinanceIdle /\ GuestsIdle /\ MoreIdle
InitGuests ==
    GuestsInit /\ PipelinesIdle /\ FinanceIdle /\ TaxIdle /\ MoreIdle
InitLines ==
    /\ LinesInit /\ PipelinesIdle /\ FinanceIdle /\ TaxIdle /\ GuestsIdle
    /\ DatesIdle /\ BatchIdle
InitDates ==
    /\ DatesInit /\ PipelinesIdle /\ FinanceIdle /\ TaxIdle /\ GuestsIdle
    /\ LinesIdle /\ BatchIdle
InitBatch ==
    /\ BatchInit /\ PipelinesIdle /\ FinanceIdle /\ TaxIdle /\ GuestsIdle
    /\ LinesIdle /\ DatesIdle

\* the two pipelines, each over its own sheet and ledger
Init ==
    /\ MergeIdle
    /\ LedgerIdle
    /\ UpsertIdle
    /\ PureIdle
    /\ \/ SyncInit /\ InvoiceIdle
       \/ SyncIdle /\ InvoiceInit

Next == SyncNext \/ InvoiceNext

Spec == Init /\ [][Next]_vars
SpecUpsert == InitUpsert /\ [][UpsertNext]_vars

SpecMerge == InitMerge /\ [][MergeNext]_vars
SpecLedger == InitLedger /\ [][LedgerNext]_vars
SpecShared == InitLedger /\ [][SharedNext]_vars
SpecFinance == InitFinance /\ [][FinanceNext]_vars
SpecTax == InitTax /\ [][TaxNext]_vars
SpecGuests == InitGuests /\ [][GuestsNext]_vars
SpecLines == InitLines /\ [][LinesNext]_vars
SpecDates == InitDates /\ [][DatesNext]_vars
SpecBatch == InitBatch /\ [][BatchNext]_vars

\* an append request that was issued ends, one way or another, and the pass
\* of the loop that issued it goes on
SpecBatchFair ==
    SpecBatch /\ WF_vars(\E outcome \in AppendOutcomes : BatchAttempt(outcome))

(***************************************************************************)
(* Claims about merge                                                      *)
(***************************************************************************)

\* C1: merge is idempotent in its incoming argument: once a record has been
\* merged with incoming, merging the result with the same incoming again
\* returns the same record, key for key (same key set, same value per key).
C1_MergeIdempotent ==
    /\ mCount >= 1 =>
          /\ Merge(mStored, mIncoming) = mStored
          /\ DOMAIN Merge(mStored, mIncoming) = DOMAIN mStored
    /\ mCount = 2 => mStored = mPrev

\* the second merge with the same incoming has been applied, to records that
\* carry different key sets and a non-blank incoming value
C1_Witness ==
    /\ mCount = 2
    /\ DOMAIN mIncoming # {}
    /\ \E k \in DOMAIN mStored : k \notin DOMAIN mIncoming
    /\ \E k \in DOMAIN mIncoming : ~IsEmpty(mIncoming[k])

\* the keys that are neither financial nor always-overwrite
OtherKeys(d) == DOMAIN d \ (FINANCIAL_FIELDS \cup ALWAYS_OVERWRITE_FIELDS)

\* C2: for a key that is neither financial nor always-overwrite, a non-blank
\* existing value and a blank incoming value (None, "", whitespace, 0 or key
\* absent) give the existing value: no import with a blank incoming value
\* erases a stored non-blank value.
C2_BlankNeverErases ==
    mCount >= 1 =>
        \A k \in OtherKeys(mPrev) :
            (~IsEmpty(mPrev[k]) /\ IsEmpty(Get(mIncoming, k)))
                => (k \in DOMAIN mStored /\ mStored[k] = mPrev[k])

\* a second import, whose incoming value is blank, has been merged over a
\* stored non-blank value
C2_Witness ==
    /\ mImports = 2
    /\ mCount = 1
    /\ \E k \in OtherKeys(mPrev) :
          /\ ~IsEmpty(mPrev[k])
          /\ IsEmpty(Get(mIncoming, k))
          /\ mStored[k] = mPrev[k]

\* C10 as stated: for each always-overwrite key (country, payout_expected)
\* merge returns the incoming value whatever the existing value is; when the
\* incoming value is blank or absent the result is blank, never the existing
\* value.
C10_AlwaysOverwriteWins ==
    mCount >= 1 =>
        \A k \in ALWAYS_OVERWRITE_FIELDS \cap DOMAIN mStored :
            IF ~IsEmpty(Get(mIncoming, k))
            THEN mStored[k] = mIncoming[k]
            ELSE IsEmpty(mStored[k])

(***************************************************************************)
(* Claims about the ledger objects                                         *)
(***************************************************************************)
\* the ids the durable store holds in the list a mark call writes
Durable(list) ==
    IF lFile.kind # "valid" THEN {}
    ELSE IF lKind = "invoices" THEN lFile.state.imported_invoice_ids
    ELSE IF list = "imported" THEN lFile.state.imported_ids
    ELSE lFile.state.notes_filled

\* the membership check of process p for a list
Marked(p, list) ==
    IF ~lMem[p].live THEN {}
    ELSE IF lKind = "invoices" THEN lMem[p].state.imported_invoice_ids
    ELSE IF list = "imported" THEN lMem[p].state.imported_ids
    ELSE lMem[p].state.notes_filled

ListOf(op) == IF op = "mark_notes_filled" THEN "notes" ELSE "imported"

MarkOps == {"mark_imported", "mark_notes_filled", "mark_invoice_imported"}

\* C6 as stated: after a mark call returns, for a non-blank id the membership
\* check is true and the durable store holds the id, and a repeated mark of
\* the id changes neither the in-memory set nor the store and writes nothing;
\* for a blank id the call is a no-op and the membership check is false.
C6_MarkPersists ==
    (lLast.op \in MarkOps /\ lLast.ret) =>
        LET rid == Strip(lLast.id)
            list == ListOf(lLast.op)
        IN  IF rid # ""
            THEN /\ rid \in Marked(lLast.proc, list)
                 /\ rid \in Durable(list)
                 /\ lLast.again => (~lLast.changed /\ ~lLast.wrote)
            ELSE ~lLast.changed /\ ~lLast.wrote

\* C7 as stated: whatever marks, failed or interrupted saves and restarts
\* came before, a freshly constructed manager reports as marked every id
\* whose mark call returned normally.
C7_SurvivesRestart ==
    (lLast.op = "init" /\ lMem["p"].live) =>
        /\ lAcked.imported \subseteq Marked("p", "imported")
        /\ lKind = "reservations" => lAcked.notes \subseteq Marked("p", "notes")

\* C8 as stated: with two managers over one store interleaving their marks,
\* every id a mark call of either manager returned for is in the durable
\* store.
C8_NoLostMark ==
    /\ lAcked.imported \subseteq Durable("imported")
    /\ lKind = "reservations" => lAcked.notes \subseteq Durable("notes")


(***************************************************************************)
(* Claims about the two pipelines                                          *)
(***************************************************************************)

\* the import loop's steps in which upsert_reservation returned
UpsertSteps == {"processed", "mark_failed", "notes_mark_failed"}

\* C3: across runs of sync_reservations_csv, once mark_imported(id) has
\* persisted (the state file has held the id), no later iteration of the
\* import loop, in this run or a later one, upserts that id again.
C3_ImportedAtMostOnce ==
    sLast.op \in UpsertSteps => ~sLast.persisted

\* C4: across non-debug runs of generate_all_invoices the invoice sheet
\* never holds more lines for a reservation than its expected count (1 for
\* airbnb, 3 otherwise), whatever the outcomes of the writes, the ledger
\* saves and the loads of the existing invoices.
C4_NoExtraLines ==
    \A j \in 1..Len(Reservations) :
        LET rid == Strip(Reservations[j].reservation_id)
        IN  rid # "" =>
                iInvoices[rid] <= ExpectedLines(Reservations[j].origin)

\* the steps of the two loops that count an error
SyncFailures == {"raised", "mark_failed", "notes_mark_failed"}
InvoiceFailures == {"raised", "write_failed", "mark_failed"}

\* a failing iteration is counted and the loop goes on with the next record
SyncIsolated ==
    /\ sLast.op \in SyncFailures =>
           /\ sPhase = "loop"
           /\ sErrors = sLast.errors + 1
           /\ sIdx = sLast.k + 1
    /\ sLast.op = "loop_end" => sLast.k = sLen

InvoiceIsolated ==
    /\ iLast.op \in InvoiceFailures =>
           /\ iPhase = "loop"
           /\ iErrors = iLast.errors + 1
           /\ iIdx = iLast.k + 1
    /\ (iLast.op = "return" /\ iLast.k # 0) => iLast.k = Len(Reservations)

\* the iteration added the record's id to the ledger, in memory or on disk
SyncMarkedByStep ==
    /\ ~sLast.mem
    /\ \/ AlreadyImported(sState, sLast.id)
       \/ sLast.id \in FileImported(sFile)

InvoiceMarkedByStep ==
    /\ ~iLast.mem
    /\ \/ InvoiceAlreadyImported(iState, iLast.id)
       \/ (iFile.kind = "valid"
           /\ iLast.id \in iFile.state.imported_invoice_ids)

\* C5 (as stated): in both batch loops a failing record k is counted, the
\* loop goes on to every record after k, and the failing record is not
\* marked in the ledger.
C5_FailureIsolated ==
    /\ SyncIsolated
    /\ InvoiceIsolated
    /\ sLast.op \in SyncFailures => ~SyncMarkedByStep
    /\ iLast.op \in InvoiceFailures => ~InvoiceMarkedByStep

\* C5 (amended): in both batch loops a failing record k is counted and the
\* loop goes on to every record after k; when the failure happens before
\* the ledger's mark method is called (mapping, merge, financials, upsert,
\* line generation, invoice write) the failing record is not marked.
C5_FailureIsolatedBeforeMark ==
    /\ SyncIsolated
    /\ InvoiceIsolated
    /\ sLast.op = "raised" => ~SyncMarkedByStep
    /\ iLast.op \in {"raised", "write_failed"} => ~InvoiceMarkedByStep

\* a record is processed after an earlier record of the same run failed
C5_Witness ==
    /\ sLast.op = "processed"
    /\ sErrors > 0
    /\ sLast.k > 1


(***************************************************************************)
(* Claims about re-processing                                              *)
(***************************************************************************)

\* the rows of the sheet that carry the id of the current CSV row
RowsOfCurrent ==
    {j \in 1..Len(uSheet) :
        Strip(uSheet[j]["reservation_id"].v) = Strip(uCsvRow.Id)}

\* C9: when a run stopped after upsert_reservation returned for an id and
\* before mark_imported persisted, and the next run re-processes the id
\* with the same incoming record and rate configuration, the sheet holds
\* exactly one row for the id, and its values are those the first upsert
\* wrote (the sheet is as the first upsert left it).
C9_ReprocessingSafe ==
    uCount = 2 =>
        /\ Cardinality(RowsOfCurrent) = 1
        /\ uSheet = uPrev

(***************************************************************************)
(* Claims about the financial fields of a merge                            *)
(***************************************************************************)
\* the financial keys of either record of the last merge
FinancialKeys == FINANCIAL_FIELDS \cap (DOMAIN mPrev \cup DOMAIN mIncoming)

Abs(x) == IF x < 0 THEN -x ELSE x

\* the sum of the four fees of the returned breakdown
FeeSum ==
    fResult["airbnb_fee"].v + fResult["lodgify_fee"].v
        + fResult["stripe_fee"].v + fResult["dynamic_fee"].v

\* total_fees == airbnb_fee + lodgify_fee + stripe_fee + dynamic_fee within
\* 0.01, over the returned breakdown
TotalFeesIdentity == Abs(fResult["total_fees"].v - FeeSum) <= 10

\* net_revenue == total_price - total_fees - vat_amount within 0.01, for the
\* total price total_price
NetRevenueIdentity(total_price) ==
    Abs(fResult["net_revenue"].v
            - (total_price - fResult["total_fees"].v
                   - fResult["vat_amount"].v)) <= 10

\* C12 as stated: for every booking record and rate configuration, also
\* those whose nights or guests_count are blank or no number, the returned
\* breakdown has total_fees equal to the sum of the four fees and
\* net_revenue equal to total_price - total_fees - vat_amount, each within
\* 0.01 (the second for every record whose total_price is a number).
C12_IdentitiesForAllInputs ==
    fCount = 1 =>
        /\ TotalFeesIdentity
        /\ Float(fRecord.total_price).ok =>
               NetRevenueIdentity(Float(fRecord.total_price).v)

\* C12 amended: the returned breakdown always has total_fees equal to the
\* sum of the four fees within 0.01; when every conversion of the record
\* and of the configuration succeeds it has net_revenue equal to
\* total_price - total_fees - vat_amount within 0.01, and when a conversion
\* fails net_revenue is 0 whatever total_price is.
C12_IdentitiesWhenConverted ==
    fCount = 1 =>
        /\ TotalFeesIdentity
        /\ IF TryRaises(fRecord, fConfig)
           THEN fResult["net_revenue"] = PyNum(0)
           ELSE NetRevenueIdentity(Float(fRecord.total_price).v)

\* a breakdown computed from fees whose sum has a third decimal, so that
\* total_fees is not the exact sum
C12_Witness ==
    /\ fCount = 1
    /\ ~TryRaises(fRecord, fConfig)
    /\ fResult["total_fees"].v # FeeSum
    /\ Float(fRecord.total_price).v > 0

\* a conversion of the record or of the configuration fails
ConversionFails ==
    \/ \E k \in {"total_price", "nights", "guests_count"} :
           ~Float(fRecord[k]).ok
    \/ \E k \in DOMAIN fConfig : ~Float(fConfig[k]).ok

\* C13: calculate_financials returns a breakdown for every booking record
\* and configuration; when a field conversion fails the breakdown has every
\* monetary field 0 and the lead time empty; the keys returned are the same
\* in both outcomes.
C13_ReturnsBreakdown ==
    fCount = 1 =>
        /\ DOMAIN fResult = BreakdownKeys
        /\ ConversionFails =>
               /\ \A k \in BreakdownKeys \ {"anticipation_days"} :
                      fResult[k] = PyNum(0)
               /\ fResult["anticipation_days"] = PyStr("")

\* a record with a price and blank nights: float(nights) raises
C13_Witness ==
    /\ fCount = 1
    /\ fRecord.nights = PyStr("")
    /\ Float(fRecord.total_price).ok
    /\ Float(fRecord.total_price).v > 0
    /\ fResult = ZeroFinancials

(***************************************************************************)
(* Claims about calculate_tourist_tax                                      *)
(***************************************************************************)
\* the date an argument parses to
ParsedDate(value) == Strptime(NormalizeDate(value).v, "%Y-%m-%d")

\* the three arguments of the last call are valid dates
ValidArgs ==
    ParsedDate(tCheckIn).ok /\ ParsedDate(tCheckOut).ok /\ ParsedDate(tDob).ok

ArgCheckIn == ParsedDate(tCheckIn).date
ArgCheckOut == ParsedDate(tCheckOut).date
ArgDob == ParsedDate(tDob).date

\* the nights n in [check_in, check_out) with floor((n - dob) / 365.25) >= 16
NightsAt16 ==
    {n \in ArgCheckIn..(ArgCheckOut - 1) :
        (4 * (n - ArgDob)) \div 1461 >= 16}

\* the age in whole years on a date, by the calendar
CalendarAge(dob_date, date) ==
    LET b == CivilFromDays(dob_date)
        c == CivilFromDays(date)
    IN  c.y - b.y
            - (IF c.m < b.m \/ (c.m = b.m /\ c.d < b.d) THEN 1 ELSE 0)

\* C14: for valid dates with check_out > check_in and a birth date not in
\* the future, calculate_tourist_tax returns 2 * min(7, c), c the number of
\* nights n in [check_in, check_out) with floor((n - dob) / 365.25) >= 16;
\* a guest who turns 16 on the third night of a 4-night stay pays 4, and a
\* guest whose 16th birthday is the check-in date pays every night up to 7.
C14_TaxPerNightAt16 ==
    (tCount >= 1 /\ ValidArgs /\ ArgCheckOut > ArgCheckIn
         /\ ArgDob <= tToday) =>
        /\ tResult.raised = ""
        /\ tResult.amount
               = 2 * (IF Cardinality(NightsAt16) < 7
                      THEN Cardinality(NightsAt16) ELSE 7)
        /\ (/\ ArgCheckOut - ArgCheckIn = 4
            /\ CalendarAge(ArgDob, ArgCheckIn + 1) = 15
            /\ CalendarAge(ArgDob, ArgCheckIn + 2) = 16)
               => tResult.amount = 4
        /\ (/\ CalendarAge(ArgDob, ArgCheckIn) = 16
            /\ CalendarAge(ArgDob, ArgCheckIn - 1) = 15)
               => tResult.amount
                      = 2 * (IF ArgCheckOut - ArgCheckIn < 7
                             THEN ArgCheckOut - ArgCheckIn ELSE 7)

\* a guest who turns 16 on the third night of a 4-night stay was charged 4
C14_Witness ==
    /\ tCount >= 1
    /\ ValidArgs
    /\ ArgDob <= tToday
    /\ ArgCheckOut - ArgCheckIn = 4
    /\ CalendarAge(ArgDob, ArgCheckIn + 1) = 15
    /\ CalendarAge(ArgDob, ArgCheckIn + 2) = 16
    /\ tResult = TaxReturned(4)

\* C15: for a fixed check_in and birth date, the tax does not decrease when
\* check_out moves later, it never exceeds 14, and it is 0 for every stay in
\* which the guest is under 16 on every night.
C15_MonotoneAndCapped ==
    (tCount >= 1 /\ tResult.raised = "") =>
        /\ tResult.amount <= 14
        /\ (tCount >= 2 /\ tPrev[2].raised = "") =>
               /\ ParsedDate(tPrev[1]).date <= ArgCheckOut
                      => tPrev[2].amount <= tResult.amount
               /\ ParsedDate(tPrev[1]).date >= ArgCheckOut
                      => tPrev[2].amount >= tResult.amount
        /\ (\A n \in ArgCheckIn..(ArgCheckOut - 1) :
                CalendarAge(ArgDob, n) < 16) => tResult.amount = 0

\* a later check_out raised the tax of the same guest and check_in, and a
\* stay longer than 7 nights was charged 14
C15_Witness ==
    /\ tCount = 2
    /\ tPrev[2].raised = "" /\ tResult.raised = ""
    /\ ParsedDate(tPrev[1]).date < ArgCheckOut
    /\ tPrev[2].amount < tResult.amount
    /\ ArgCheckOut - ArgCheckIn > 7
    /\ tResult.amount = 14

\* the policy cutoff date(2025, 1, 1)
CutoffDate == DaysFromCivil(2025, 1, 1)

\* C16: calculate_tourist_tax returns 0 for every booking whose check_in is
\* before 2025-01-01, whatever the stay length and the guest's age.
C16_ZeroBeforeCutoff ==
    (tCount >= 1 /\ ValidArgs /\ ArgCheckIn < CutoffDate) =>
        tResult = TaxReturned(0)

\* an argument of the last call is no date
ArgUnparseable ==
    tCheckIn \in Unparseable \/ tCheckOut \in Unparseable
        \/ tDob \in Unparseable

BookingCheckIn == ParseReservationDate(gReservation.check_in)
BookingCheckOut == ParseReservationDate(gReservation.check_out)

\* the candidates whose parsed check-in and check-out both equal the
\* booking's
DateMatching ==
    {j \in DOMAIN gForms :
        /\ BookingCheckIn.ok /\ BookingCheckOut.ok
        /\ ParseSefDate(gForms[j]["Check-in date"])
               = [ok |-> TRUE, date |-> BookingCheckIn.date]
        /\ ParseSefDate(gForms[j]["Check-out date"])
               = [ok |-> TRUE, date |-> BookingCheckOut.date]}

\* the candidates the tax counts
Taxed == IF DateMatching = {} THEN DOMAIN gForms ELSE DateMatching

\* the nights of the booking on which candidate j is at least 16
NightsAtLeast16(j) ==
    {n \in BookingCheckIn.date..(BookingCheckOut.date - 1) :
        CalendarAge(ParseSefDate(gForms[j]["Date of Birth"]).date, n) >= 16}

\* C18: the booking-level tax applies the per-candidate age rule and cap:
\* a candidate under 16 on every night contributes nothing, and the amount
\* never exceeds 14 times the taxed-guest count.
C18_PerCandidateAgeAndCap ==
    (gTax # NoBookingTax /\ gTax.raised = "") =>
        /\ gTax.amount <= 14 * gTax.count
        /\ (/\ BookingCheckIn.ok /\ BookingCheckOut.ok
            /\ \A j \in Taxed : NightsAtLeast16(j) = {})
               => gTax.amount = 0

\* C19: _calculate_tourist_tax returns (0, 0) when the booking's check-in
\* is before 2025-01-01; otherwise, for nights > 0 and a parseable
\* check-in, the taxed-guest count is the number of candidates whose parsed
\* dates both equal the booking's, or the number of all candidates when
\* none match by date.
C19_CutoffAndTaxedCount ==
    gTax # NoBookingTax =>
        /\ (BookingCheckIn.ok /\ BookingCheckIn.date < CutoffDate)
               => gTax = BookingTax(0, 0)
        /\ (/\ BookingCheckIn.ok /\ BookingCheckIn.date >= CutoffDate
            /\ Float(gReservation.nights).ok
            /\ Float(gReservation.nights).v > 0)
               => /\ gTax.raised = ""
                  /\ gTax.count = Cardinality(Taxed)

\* the name-similarity score of candidate j
ScoreOf(j) ==
    FuzzyMatchScore(Strip(gReservation.guest_name.v),
                    Strip(gForms[j]["Full Name"].v))

\* the date-matching candidate with the highest score, the earliest among
\* equal scores
Highest ==
    CHOOSE j \in DateMatching :
        \A k \in DateMatching :
            /\ ScoreOf(k).num * ScoreOf(j).den <= ScoreOf(j).num * ScoreOf(k).den
            /\ (ScoreOf(k).num * ScoreOf(j).den = ScoreOf(j).num * ScoreOf(k).den)
                   => j <= k

\* C20: when at least one candidate matches the booking's check-in and
\* check-out, _match_primary_guest returns the date-matching candidate with
\* the highest score (the earliest among equal scores) if that score is
\* above 0.65, otherwise the first date-matching candidate; it never returns
\* a candidate that does not match both dates.
C20_BestDateMatchingGuest ==
    (gMatch.called /\ DateMatching # {}) =>
        /\ gMatch.match \in DateMatching
        /\ IF ScoreOf(Highest).num * 20 > 13 * ScoreOf(Highest).den
           THEN gMatch.match = Highest
           ELSE gMatch.match = First(DateMatching)

\* two date-matching candidates score the same above 0.65 and the earlier
\* is returned, after a date-matching candidate of lower score
C20_Witness ==
    /\ gMatch.called
    /\ Cardinality(DateMatching) >= 2
    /\ gMatch.match # First(DateMatching)
    /\ ScoreOf(gMatch.match).num * 20 > 13 * ScoreOf(gMatch.match).den

\* C21: _match_primary_guest returns none only when the candidate list is
\* empty: for a non-empty candidate list in which no candidate matches by
\* date, it returns the first candidate of the whole input list.
C21_NoneOnlyWhenEmpty ==
    gMatch.called =>
        /\ (gMatch.match = 0) => (gForms = <<>>)
        /\ (gForms # <<>> /\ DateMatching = {}) => gMatch.match = 1

(***************************************************************************)
(* Claims about the invoice lines of a reservation                         *)
(***************************************************************************)
LineOrigin == LowerStrip(Str(nReservation.origin).v)
LineTotalPrice == NormalizePrice(nReservation.total_price)

\* the booking tax in thousandths, and its taxed-guest count
LineBookingTax == InvoiceCalculateTouristTax(nReservation, nForms)

\* the line carries the given lodging amount, tax and taxed-guest count, and
\* its total_amount is lodging plus tax
LineIs(line, invoice_type, lodging_amount, tourist_tax, tt_guests_count) ==
    /\ line.invoice_type = invoice_type
    /\ line.lodging_amount = lodging_amount
    /\ line.tourist_tax = tourist_tax
    /\ line.tt_guests_count = tt_guests_count
    /\ line.total_amount = line.lodging_amount + line.tourist_tax

\* amount is 30% of total_price, to the cent
IsDeposit(amount, total_price) ==
    /\ amount % 10 = 0
    /\ Abs(10 * amount - 3 * total_price) <= 50

\* the lines are those of the claim: one line for airbnb, three otherwise
LinesAsClaimed(lines) ==
    IF LineOrigin = "airbnb"
    THEN /\ Len(lines) = 1
         /\ LineIs(lines[1], "airbnb", LineTotalPrice,
                   1000 * LineBookingTax.amount, LineBookingTax.count)
    ELSE /\ Len(lines) = 3
         /\ IsDeposit(lines[1].lodging_amount, LineTotalPrice)
         /\ LineIs(lines[1], "pre_invoice", lines[1].lodging_amount, 0, 0)
         /\ IsDeposit(0 - lines[2].lodging_amount, LineTotalPrice)
         /\ LineIs(lines[2], "credit_note", 0 - lines[1].lodging_amount, 0, 0)
         /\ LineIs(lines[3], "final_invoice", LineTotalPrice,
                   1000 * LineBookingTax.amount, LineBookingTax.count)

\* C22: generate_invoice_lines returns exactly 1 line for a booking of
\* origin airbnb (lodging = total_price, tax = booking tax) and exactly 3
\* lines, in this order, for any other origin: deposit (+30% of total_price,
\* zero tax, zero taxed-guest count), credit note (-30%, zero tax, zero
\* taxed-guest count), final line (total_price and the booking tax); each
\* line's total_amount is its lodging amount plus its tax.
C22_LinesByOrigin ==
    nLines # NoLinesResult =>
        /\ nLines.raised = ""
        /\ LinesAsClaimed(nLines.lines)

\* the nights of the reservation described, as int(float(...)) reads them
DescribedNightsRead == Float(nArgs.nights)

\* |tax / 2 / nights - taxed_guest_count| - 0.01, times 2000 * nights
Mismatch ==
    Abs(nArgs.tourist_tax
        - 2000 * DescribedNightsRead.v * nArgs.tt_guests_count)
    - 20 * DescribedNightsRead.v

\* the description is empty when tax <= 0 or nights <= 0
EmptyWhenNothingToTax ==
    (\/ nArgs.tourist_tax <= 0
     \/ DescribedNightsRead.ok /\ DescribedNightsRead.v <= 0)
        => nDescription = EmptyDescription

TaxAndNights ==
    /\ nArgs # NoDescriptionArgs
    /\ nArgs.tourist_tax > 0
    /\ DescribedNightsRead.ok /\ DescribedNightsRead.v > 0

\* C23 as stated: for tax > 0 and whole nights > 0 the description is the
\* error flag exactly when |tax / 2 / nights - taxed_guest_count| >= 0.01
\* and the normal description otherwise; it is empty when tax <= 0 or
\* nights <= 0, and the call never raises for these inputs.
C23_ErrorFlagExactlyAtTolerance ==
    nDescription # NoDescription =>
        /\ EmptyWhenNothingToTax
        /\ TaxAndNights =>
               nDescription =
                   IF Mismatch >= 0 THEN ErrorDescription
                   ELSE NormalDescription(nArgs.tt_guests_count,
                                          DescribedNightsRead.v)

\* C23 (amended): the description is the error flag when the mismatch is
\* above 0.01 and the normal description when it is below 0.01; at a
\* mismatch of exactly 0.01 it is one of the two, as the floating-point
\* comparison falls; it is empty when tax <= 0 or nights <= 0, and the call
\* never raises for these inputs.
C23_ErrorFlagBeyondTolerance ==
    nDescription # NoDescription =>
        /\ EmptyWhenNothingToTax
        /\ TaxAndNights =>
               /\ Mismatch > 0 => nDescription = ErrorDescription
               /\ Mismatch < 0 =>
                      nDescription =
                          NormalDescription(nArgs.tt_guests_count,
                                            DescribedNightsRead.v)
               /\ Mismatch = 0 =>
                      nDescription \in
                          {ErrorDescription,
                           NormalDescription(nArgs.tt_guests_count,
                                             DescribedNightsRead.v)}

\* a tax of 4.02 for 2 guests and 1 night, a mismatch of 0.01, is described
\* normally
C23_Witness ==
    /\ TaxAndNights
    /\ Mismatch = 0
    /\ nDescription = NormalDescription(2, 1)

(***************************************************************************)
(* Claims about normalize_date and parse_sef_date                          *)
(***************************************************************************)
\* the serial number a value of SerialValues stands for
SerialOf(value) ==
    IF value.t = "str" THEN SerialOfString(value) ELSE IntOf(value)

\* the date s days after 1899-12-30 as YYYY-MM-DD, a ValueError past the
\* year 9999
SerialInterpretation(s) ==
    IF CivilFromDays(DaysFromCivil(1899, 12, 30) + s).y <= 9999
    THEN [ok |-> TRUE,
          v |-> Text("-", CivilFromDays(DaysFromCivil(1899, 12, 30) + s).y,
                     CivilFromDays(DaysFromCivil(1899, 12, 30) + s).m,
                     CivilFromDays(DaysFromCivil(1899, 12, 30) + s).d)]
    ELSE [ok |-> FALSE, v |-> PyNone]

\* C24: normalize_date applies the spreadsheet-serial interpretation (days
\* since 1899-12-30) to numeric inputs and to numeric-string inputs alike:
\* normalize_date(str(s)) == normalize_date(s) == normalize_date(float(s)).
C24_SerialFormsAgree ==
    (dResult # NoNormalized /\ dValue \in SerialValues) =>
        dResult = SerialInterpretation(SerialOf(dValue))

\* 2000 + YY when YY < 50, 1900 + YY otherwise
PivotAt50(yy) == IF yy < 50 THEN 2000 + yy ELSE 1900 + yy

\* raw spells YY-M-D or YY/M/D, alone or followed by a time of day
TwoDigitYearForm ==
    /\ pRaw.t = "text"
    /\ pRaw.v.a \in 10..99
    /\ pRaw.v.c <= 31
    /\ ValidDate(PivotAt50(pRaw.v.a), pRaw.v.b, pRaw.v.c)

\* C25: parse_sef_date resolves every two-digit year YY to 2000+YY when
\* YY < 50 and to 1900+YY otherwise, for every accepted two-digit-year form
\* (YY-M-D, YY/M/D and the regex fallback).
C25_TwoDigitYearPivot50 ==
    (pDate # NoParsed /\ TwoDigitYearForm) =>
        pDate = [ok |-> TRUE,
                 date |-> DaysFromCivil(PivotAt50(pRaw.v.a), pRaw.v.b,
                                        pRaw.v.c)]

SyncCompleted == sLast.op = "return" /\ sLast.k > 0
InvoicesCompleted == iLast.op = "return" /\ iLast.k > 0

\* C27: sync_reservations_csv and generate_all_invoices return True whenever
\* the run completes with no per-record error and no fatal load error,
\* including a re-run in which every record is skipped because the ledger
\* already holds its id; they return False only when the run failed.
C27_TrueUnlessFailed ==
    /\ (SyncCompleted /\ sLast.errors = 0) => sLast.ret
    /\ (InvoicesCompleted /\ iLast.errors = 0) => iLast.ret

(***************************************************************************)
(* Claims about write_invoice_lines_batch                                  *)
(***************************************************************************)
\* the call issued at most two append requests, the second only after a 429
\* on the first, and none after a success or any other failure
AtMostOneRetry ==
    /\ Len(bAttempts) <= 2
    /\ Len(bAttempts) = 2 => bAttempts[1] = "429"
    /\ bPc = "loop" => \A k \in 1..Len(bAttempts) : bAttempts[k] = "429"

\* a call that returned gave True exactly when one of its attempts
\* succeeded, and made no attempt for an empty row list
ResultAsAttempts ==
    bPc = "returned" =>
        /\ bResult \in {"True", "False"}
        /\ bResult = "True" <=>
               \E k \in 1..Len(bAttempts) : bAttempts[k] = "ok"
        /\ bRows = 0 => bAttempts = <<>> /\ bResult = "False"
        /\ bRows # 0 => bAttempts # <<>>

\* C28: write_invoice_lines_batch always terminates and issues the append
\* request at most twice per call: it retries exactly once and only after an
\* HTTP 429 on the first attempt; a second 429, any other HTTP error or any
\* other exception ends the call with False and no further attempt; it
\* returns True exactly when one of its attempts succeeded, and False without
\* any attempt when the row list is empty.
C28_TerminatesWithinTwoAttempts ==
    /\ [](AtMostOneRetry /\ ResultAsAttempts)
    /\ (bPc = "loop") ~> (bPc = "returned")

\* a call got a 429, retried once and succeeded
C28_Witness ==
    /\ bPc = "returned"
    /\ bAttempts = <<"429", "ok">>
    /\ bResult = "True"

\* the ids of the invoice ledger: imported_invoice_ids of the manager in
\* memory and of the state file
InvoiceLedgerIds ==
    iState.imported_invoice_ids \cup
    (IF iFile.kind = "valid" THEN iFile.state.imported_invoice_ids ELSE {})

\* the origin of the reservation with this id in the reservations sheet
OriginOf(rid) ==
    LET j == CHOOSE j \in 1..Len(Reservations) :
                 Strip(Reservations[j].reservation_id) = rid
    IN  Reservations[j].origin

\* the expected number of lines as the claim states it
LinesDue(rid) == IF OriginOf(rid) = "airbnb" THEN 1 ELSE 3

LedgerIdsHaveLines ==
    \A rid \in InvoiceLedgerIds : iInvoices[rid] >= LinesDue(rid)

\* in this step rid enters the ledger, in a non-debug run, with its lines
\* written in the step or counted in the store when the run loaded it
EntersAfterWriteOrCount(rid) ==
    (rid \notin InvoiceLedgerIds /\ rid \in InvoiceLedgerIds') =>
        /\ ~iDebug
        /\ \/ iInvoices'[rid] = iInvoices[rid] + LinesDue(rid)
           \/ LineCount(iCounts, rid) >= LinesDue(rid)

\* a step of a debug run leaves the state file, the manager's state and the
\* invoice sheet as they were
DebugChangesNothing ==
    /\ (iDebug \/ iDebug') => UNCHANGED <<iFile, iInvoices>>
    /\ (iDebug /\ iDebug') => UNCHANGED iState

\* C29: in generate_all_invoices an id enters the invoice ledger only in a
\* non-debug run, after its lines were written in that iteration or after
\* the store was seen to hold its expected number of lines (1 for airbnb, 3
\* otherwise); so every id in the ledger has at least its expected lines in
\* the store, and debug runs change neither the ledger nor the store.
C29_LedgerIdsHaveLines ==
    /\ []LedgerIdsHaveLines
    /\ [][/\ \A rid \in InvoiceIds : EntersAfterWriteOrCount(rid)
          /\ DebugChangesNothing]_vars

\* C29 witness: a debug run finds the three lines of B in the store, B not
\* in the ledger (its mark was not saved), and A in the ledger
C29_Witness ==
    /\ iDebug
    /\ iLast.op = "counted_debug"
    /\ iLast.id = "B"
    /\ InvoiceLedgerIds = {"A"}
    /\ iInvoices["B"] >= 3

\* ids the state file holds in notes_filled
FileNotesFilled(file) ==
    IF file.kind = "valid" THEN file.state.notes_filled ELSE {}

\* in the manager's state and in the state file the notes-filled ids are
\* imported ids
NotesWithinImported ==
    /\ sState.notes_filled \subseteq sState.imported_ids
    /\ FileNotesFilled(sFile) \subseteq FileImported(sFile)

\* the reservations sheet holds a row of this id whose amounts give notes
RowWithNotes(sheet, id) ==
    LET j == FindRow(sheet, id)
    IN  j # 0 /\ HasNotes(sheet[j].total_price)

\* a step of the import loop or of the backfill in which mark_notes_filled
\* adds id: mark_imported(id) was called in the step or already_imported(id)
\* held before it, and the upsert with the notes has written the row
NotesMarkedAfterImport(id) ==
    (/\ sPhase \in {"loop", "backfill"}
     /\ sPhase' = sPhase
     /\ id \notin sState.notes_filled
     /\ id \in sState'.notes_filled) =>
        /\ id \in sState'.imported_ids
        /\ RowWithNotes(sSheet', id)
        /\ \/ /\ sLast'.op \in {"processed", "notes_mark_failed"}
              /\ sLast'.id = id
              /\ sLast'.upsert
           \/ /\ sLast'.op = "backfill"
              /\ AlreadyImported(sState, id)

\* C30: over runs of sync_reservations_csv that start from an empty
\* reservation ledger every notes-filled id is an imported id, and
\* mark_notes_filled(id) is reached only after mark_imported(id) in the same
\* iteration or for an already imported id, with non-empty notes and an
\* upsert that returned.
C30_NotesFilledAreImported ==
    /\ []NotesWithinImported
    /\ [][\A id \in CsvIds : NotesMarkedAfterImport(id)]_vars

\* C30 witness: the backfill filled the notes of A, imported by an earlier
\* run, and the state file holds both marks
C30_Witness ==
    /\ sLast.op = "backfill"
    /\ sState.imported_ids = {"A"}
    /\ sState.notes_filled = {"A"}
    /\ FileNotesFilled(sFile) = {"A"}
    /\ FileImported(sFile) = {"A"}

=============================================================================
